---- MODULE Spec2Model ----
(***************************************************************************)
(* Sentinel authorization service (services/sentinel-service): the five    *)
(* document collections, the admin operations that write them, and         *)
(* Resolver.resolve, which reads them.  With it, the two services around  *)
(* it: the passport service (services/passport-service), whose OIDC        *)
(* callback upserts the user in Sentinel, resolves the authorization and   *)
(* keeps it in a session, with its session and handoff stores; and the     *)
(* notification service (services/notification-service), whose             *)
(* WebSocketManager fans messages out to the connected websockets.         *)
(*                                                                         *)
(* Conventions.                                                            *)
(*  - Python None (and a field missing from a Mongo document, which a      *)
(*    Mongo equality query treats like null) is the string None.           *)
(*  - An Optional[dict] is a sequence of length 0 or 1.                    *)
(*  - Plain names (role, group, policy names, platforms, workspaces) are   *)
(*    strings.  Permission keys, resource types and actions are sequences  *)
(*    of tokens (Tok), because the code splits and strips them; a token is *)
(*    "." or " " or a word that contains neither.                          *)
(*  - The list fields group_names / role_names / permission_keys /         *)
(*    user_refs are sets: the resolver reads each of them only through     *)
(*    set(...), any(...) or set.update(...).                               *)
(*  - Time is logical: _now() at a write is the number of that write, and  *)
(*    the documents of the initial store carry updated_at = 0.             *)
(***************************************************************************)
EXTENDS Integers, Sequences, FiniteSets, TLC

VARIABLES
    users,        \* collection "users":       set of user documents
    groups,       \* collection "groups":      set of group documents
    roles,        \* collection "roles":       set of role documents
    permissions,  \* collection "permissions": set of permission documents
    policies,     \* collection "policies":    set of policy documents
    clock,        \* number of writes done so far; source of ObjectIds
    req,          \* the request being answered
    resp,         \* the answer to req
    call,         \* the resolve call in flight: its position and local variables
    time,         \* passport: time.time(), in ticks
    sessions,     \* passport: InMemorySessionStore._store, a set of records
    codes,        \* passport: InMemoryHandoffStore._codes, a set of records
    flows,        \* passport: app.state.flow_store, the ids of the open login flows
    app_state,    \* passport: the names of the attributes set on app.state
    minted,       \* passport: number of uuids made so far
    clients,      \* notification: WebSocketManager._clients
    lock,         \* notification: the task that holds WebSocketManager._lock, or None
    conns,        \* notification: the position of each websocket's endpoint task
    bcast         \* notification: per broadcast in flight, its position and locals

store == <<users, groups, roles, permissions, policies>>

\* The state of the passport service and of the notification service.
passport == <<time, sessions, codes, flows, app_state, minted>>
notification == <<clients, lock, conns, bcast>>

\* What no Sentinel admin operation and no resolve served in one piece touches.
outside == <<call, passport, notification>>

vars ==
    <<users, groups, roles, permissions, policies, clock, req, resp, call,
      time, sessions, codes, flows, app_state, minted, clients, lock, conns, bcast>>

\* No resolve call is in flight.
NoCall == [pc |-> "idle"]

(***************************************************************************)
(* Bounds and value universes                                              *)
(***************************************************************************)
MaxWrites == 1

None == "None"

\* The websockets that may connect to the notification service.
Sockets == {"ws1", "ws2", "ws3"}

\* The messages of the consumer: _message_handler runs once for each, and
\* calls broadcast once.
Broadcasts == {"b1", "b2"}

\* A broadcast not called yet.  snapshot, sent, joined, left, pruned and
\* at_return are not locals of broadcast: they keep what it read, what
\* happened to the client set during it, and the set when it returned.
IdleBroadcast ==
    [pc |-> "idle", snapshot |-> {}, pending |-> {}, stale |-> {}, sent |-> {},
     joined |-> {}, left |-> {}, pruned |-> {}, at_return |-> {}]

\* passport main.py, startup: the attributes it sets on app.state.
PassportStarted ==
    /\ time = 0
    /\ sessions = {}
    /\ codes = {}
    /\ flows = {}
    /\ app_state = {"oauth", "session_store", "flow_store"}
    /\ minted = 0

\* notification: the module-level WebSocketManager(), no endpoint running.
NotificationStarted ==
    /\ clients = {}
    /\ lock = None
    /\ conns = [w \in Sockets |-> "new"]
    /\ bcast = [b \in Broadcasts |-> IdleBroadcast]

\* Nothing outside the Sentinel store has happened.
OutsideIdle == call = NoCall /\ PassportStarted /\ NotificationStarted

Subjects == {"u1", "u2"}
GroupNames == {"g1", "g2"}
RoleNames == {"r1", "r2"}
Priorities == {1, 100}

\* Every plain name of the model, in Python's string order (code point order).
StrOrder ==
    <<"", "None", "astra", "g1", "g2", "kc", "p1", "p2", "p3", "p4", "r1", "r2", "r3",
      "raina", "u1", "u2", "ws1", "ws2">>

StrRank(s) == CHOOSE i \in 1..Len(StrOrder) : StrOrder[i] = s

\* Python: bool(x) for an Optional[str].
Truthy(x) == x # None /\ x # ""

\* Python: a or b.
Or(a, b) == IF Truthy(a) THEN a ELSE b

\* str(ObjectId): the id Mongo gives the n-th inserted document.
ObjectId(n) == "oid" \o ToString(n)

(***************************************************************************)
(* Token strings: permission keys, resource types, actions                 *)
(***************************************************************************)
Dot == "."
Space == " "
\* Tokens in code point order: " " < "." < letters.
TokOrder == <<" ", ".", "global", "read", "run", "use", "workspace", "write">>
Tok == {TokOrder[i] : i \in 1..Len(TokOrder)}
TokRank(t) == CHOOSE i \in 1..Len(TokOrder) : TokOrder[i] = t

\* Python: s1 < s2 on strings (lexicographic).
RECURSIVE TokLess(_, _)
TokLess(s, t) ==
    IF s = <<>> THEN t # <<>>
    ELSE IF t = <<>> THEN FALSE
    ELSE IF Head(s) = Head(t) THEN TokLess(Tail(s), Tail(t))
    ELSE TokRank(Head(s)) < TokRank(Head(t))

\* Python: "." in key
HasDot(key) == \E i \in 1..Len(key) : key[i] = Dot

FirstDot(key) == CHOOSE i \in 1..Len(key) : key[i] = Dot /\ \A j \in 1..(i - 1) : key[j] # Dot

\* Python: key.split(".", 1)[0] and key.split(".", 1)[1], for a key with a dot.
SplitHead(key) == SubSeq(key, 1, FirstDot(key) - 1)
SplitTail(key) == SubSeq(key, FirstDot(key) + 1, Len(key))

\* Python: s.strip()
RECURSIVE LStrip(_)
LStrip(s) == IF s # <<>> /\ Head(s) = Space THEN LStrip(Tail(s)) ELSE s
RECURSIVE RStrip(_)
RStrip(s) == IF s # <<>> /\ s[Len(s)] = Space THEN RStrip(SubSeq(s, 1, Len(s) - 1)) ELSE s
Strip(s) == RStrip(LStrip(s))

\* Python: a or b, on token strings (only the empty string is falsy).
TokOr(a, b) == IF a # <<>> THEN a ELSE b

\* permission_dal._derive_resource_action
derive_resource_action(key) ==
    IF ~HasDot(key) THEN <<<<"global">>, key>>
    ELSE <<TokOr(Strip(SplitHead(key)), <<"global">>), TokOr(Strip(SplitTail(key)), <<"use">>)>>

(***************************************************************************)
(* Sorting                                                                 *)
(***************************************************************************)
\* Python: sorted(S) for a set of plain names.
RECURSIVE SortedNames(_)
SortedNames(S) ==
    IF S = {} THEN <<>>
    ELSE LET m == CHOOSE x \in S : \A y \in S : StrRank(x) <= StrRank(y)
         IN  <<m>> \o SortedNames(S \ {m})

\* Mutant: the keys are sorted in descending order.
RECURSIVE SortedKeys_Descending(_)
SortedKeys_Descending(S) ==
    IF S = {} THEN <<>>
    ELSE LET m == CHOOSE x \in S : \A y \in S \ {x} : TokLess(y, x)
         IN  <<m>> \o SortedKeys_Descending(S \ {m})

\* Python: sorted(S) for a set of token strings.
RECURSIVE SortedKeys(_)
SortedKeys(S) ==
    IF S = {} THEN <<>>
    ELSE LET m == CHOOSE x \in S : \A y \in S \ {x} : TokLess(x, y)
         IN  <<m>> \o SortedKeys(S \ {m})

\* Mutant: the sort is by name only.
PolicyBefore_NameOnly(p, q) == StrRank(p.name) <= StrRank(q.name)

\* Mongo: .sort([("priority", ASCENDING), ("name", ASCENDING)])
PolicyBefore(p, q) ==
    \/ p.priority < q.priority
    \/ p.priority = q.priority /\ StrRank(p.name) <= StrRank(q.name)

RECURSIVE SortedPolicies(_)
SortedPolicies(S) ==
    IF S = {} THEN <<>>
    ELSE LET m == CHOOSE x \in S : \A y \in S : PolicyBefore(x, y)
         IN  <<m>> \o SortedPolicies(S \ {m})

Range(s) == {s[i] : i \in 1..Len(s)}

(***************************************************************************)
(* Store reads (the DALs' lookups)                                         *)
(***************************************************************************)
\* Mongo find_one: a matching document, or None.
FindOne(S) == IF S = {} THEN <<>> ELSE <<CHOOSE d \in S : TRUE>>

\* Mutant: the query filters on the issuer only.
User_get_by_ref_IssuerOnly(us, issuer, subject) == FindOne({d \in us : d.issuer = issuer})

\* UserDAL.get_by_ref
User_get_by_ref(us, issuer, subject) ==
    FindOne({d \in us : d.issuer = issuer /\ d.subject = subject})

\* Mutant: the query does not filter on the name.
Group_get_by_name_AnyGroup(gs, name) == FindOne(gs)

\* GroupDAL.get_by_name
Group_get_by_name(gs, name) == FindOne({d \in gs : d.name = name})

\* RoleDAL.get_by_name
Role_get_by_name(rs, name) == FindOne({d \in rs : d.name = name})

\* PermissionDAL.get_many_by_keys: the stored documents whose key is asked for.
Permission_get_many_by_keys(ps, keys) ==
    IF keys = {} THEN {} ELSE {d \in ps : d.key \in keys}

\* Mutant: the query does not filter on target.workspace_id.
find_applicable_query_PlatformOnly(p, platform, workspace_id) ==
    p.enabled = TRUE /\ p.target.platform = platform

\* PolicyDAL.find_applicable: the query, then the sort.
find_applicable_query(p, platform, workspace_id) ==
    /\ p.enabled = TRUE
    /\ p.target.platform = platform
    /\ \/ p.target.workspace_id = workspace_id
       \/ p.target.workspace_id = None

find_applicable(pols, platform, workspace_id) ==
    SortedPolicies({p \in pols : find_applicable_query(p, platform, workspace_id)})

(***************************************************************************)
(* Resolver.resolve                                                        *)
(***************************************************************************)
EmptyResource == [type |-> None, id |-> None]
EmptyContext == [platform |-> None, resource |-> <<>>]

\* ctx = context or {}; ctx.get("resource") or {}
Ctx(r) == IF r.context = <<>> THEN EmptyContext ELSE r.context[1]
CtxResource(r) == IF Ctx(r).resource = <<>> THEN EmptyResource ELSE Ctx(r).resource[1]

\* Mutant: the flat platform is preferred to the context's platform.
platform_eff_FlatFirst(r) == Or(r.platform, Ctx(r).platform)

\* platform_eff = ctx_platform or platform
platform_eff(r) == Or(Ctx(r).platform, r.platform)

\* resource_type / resource_id are read only when the resource names a type.
ctx_resource_type(r) == IF Truthy(CtxResource(r).type) THEN CtxResource(r).type ELSE None
ctx_resource_id(r) == IF Truthy(CtxResource(r).type) THEN CtxResource(r).id ELSE None

workspace_eff(r) ==
    IF ctx_resource_type(r) = "workspace" /\ Truthy(ctx_resource_id(r))
    THEN ctx_resource_id(r)
    ELSE r.workspace_id

\* user_groups, user_roles_direct: (user or {}).get(...) or []
user_groups(us, r) ==
    LET user == User_get_by_ref(us, r.issuer, r.subject)
    IN  IF user = <<>> THEN {} ELSE user[1].group_names

user_roles_direct(us, r) ==
    LET user == User_get_by_ref(us, r.issuer, r.subject)
    IN  IF user = <<>> THEN {} ELSE user[1].role_names

\* Mutant: the loop runs over every stored group, not over the user's groups.
group_roles_AllGroups(us, gs, r) == UNION {g.role_names : g \in gs}

\* The loop "for gname in user_groups": the union of the stored groups' roles.
group_roles(us, gs, r) ==
    UNION {LET g == Group_get_by_name(gs, gname)
           IN  IF g # <<>> THEN g[1].role_names ELSE {} : gname \in user_groups(us, r)}

\* Mutant: a reference matches on the subject alone.
user_match_SubjectOnly(p, r) == \E ref \in p.subjects.user_refs : ref.subject = r.subject

\* The tests of one pass of the loop "for p in policies".
user_match(p, r) ==
    \E ref \in p.subjects.user_refs : ref.issuer = r.issuer /\ ref.subject = r.subject

\* Mutant: a policy for groups matches whoever asks.
group_match_AnyCaller(p, us, r) == p.subjects.group_names # {}

group_match(p, us, r) == (user_groups(us, r) \cap p.subjects.group_names) # {}

\* p.get("name") or p.get("_id", "policy")
policy_label(p) == Or(p.name, p._id)

\* Mutant: first match wins; a role an earlier policy decided is left as decided.
policy_step_FirstMatchWins(acc, p, us, r) ==
    IF ~p.enabled THEN acc
    ELSE IF ~(user_match(p, r) \/ group_match(p, us, r)) THEN acc
    ELSE IF p.grant.role_names = {} THEN acc
    ELSE IF p.effect = "deny"
         THEN [acc EXCEPT !.applied = Append(@, policy_label(p)),
                          !.deny = @ \cup (p.grant.role_names \ acc.allow)]
         ELSE [acc EXCEPT !.applied = Append(@, policy_label(p)),
                          !.allow = @ \cup (p.grant.role_names \ acc.deny)]

\* One pass of the loop body over policy p, on the accumulator
\* acc = [applied, allow, deny].
policy_step(acc, p, us, r) ==
    IF ~p.enabled THEN acc
    ELSE IF ~(user_match(p, r) \/ group_match(p, us, r)) THEN acc
    ELSE IF p.grant.role_names = {} THEN acc
    ELSE IF p.effect = "deny"
         THEN [acc EXCEPT !.applied = Append(@, policy_label(p)),
                          !.deny = @ \cup p.grant.role_names]
         ELSE [acc EXCEPT !.applied = Append(@, policy_label(p)),
                          !.allow = @ \cup p.grant.role_names]

RECURSIVE policy_loop(_, _, _, _)
policy_loop(acc, ps, us, r) ==
    IF ps = <<>> THEN acc
    ELSE policy_loop(policy_step(acc, Head(ps), us, r), Tail(ps), us, r)

matched(us, pols, r) ==
    policy_loop([applied |-> <<>>, allow |-> {}, deny |-> {}],
                find_applicable(pols, platform_eff(r), workspace_eff(r)), us, r)

\* Mutant: the deny set is taken from the policy grants only.
roles_final_DenyPolicyGrantsOnly(us, gs, pols, r) ==
    user_roles_direct(us, r) \cup group_roles(us, gs, r)
        \cup (matched(us, pols, r).allow \ matched(us, pols, r).deny)

\* roles_final = (user_roles_direct | group_roles | policy_roles_allow) - policy_roles_deny
roles_final(us, gs, pols, r) ==
    (user_roles_direct(us, r) \cup group_roles(us, gs, r) \cup matched(us, pols, r).allow)
        \ matched(us, pols, r).deny

\* Mutant: every stored role is expanded, not the final roles only.
permission_keys_AllRoles(rs, final) == UNION {d.permission_keys : d \in rs}

\* The loop "for rname in roles_final".
permission_keys(rs, final) ==
    UNION {LET ro == Role_get_by_name(rs, rname)
           IN  IF ro # <<>> THEN ro[1].permission_keys ELSE {} : rname \in final}

\* Mutant: every grant is bound to the workspace, whatever its resource type.
permission_grant_BindsEvery(key, perm_docs, r) ==
    LET doc == FindOne({d \in perm_docs : d.key = key})
    IN  [key |-> key,
         action |-> IF doc # <<>> /\ doc[1].action # <<>> THEN doc[1].action
                    ELSE IF HasDot(key) THEN SplitTail(key) ELSE key,
         resource_type |-> IF doc # <<>> /\ doc[1].resource_type # <<>>
                           THEN doc[1].resource_type
                           ELSE IF HasDot(key) THEN SplitHead(key) ELSE <<"global">>,
         app |-> IF doc # <<>> THEN doc[1].app ELSE None,
         platform |-> platform_eff(r),
         resource_id |-> workspace_eff(r)]

\* One element of permissions_out.
permission_grant(key, perm_docs, r) ==
    LET doc == FindOne({d \in perm_docs : d.key = key})
        resource_type_doc ==
            IF doc # <<>> /\ doc[1].resource_type # <<>> THEN doc[1].resource_type
            ELSE IF HasDot(key) THEN SplitHead(key) ELSE <<"global">>
        action ==
            IF doc # <<>> /\ doc[1].action # <<>> THEN doc[1].action
            ELSE IF HasDot(key) THEN SplitTail(key) ELSE key
    IN  [key |-> key,
         action |-> action,
         resource_type |-> resource_type_doc,
         app |-> IF doc # <<>> THEN doc[1].app ELSE None,
         platform |-> platform_eff(r),
         resource_id |-> IF resource_type_doc = <<"workspace">> THEN workspace_eff(r) ELSE None]

\* Mutant: grants are built for the keys that have a stored document only.
permissions_out_StoredOnly(rs, ps, final, r) ==
    LET keys == permission_keys(rs, final)
        perm_docs == Permission_get_many_by_keys(ps, keys)
        sorted == SortedKeys({d.key : d \in perm_docs})
    IN  [i \in 1..Len(sorted) |-> permission_grant(sorted[i], perm_docs, r)]

\* The batch load and the loop "for key in sorted(permission_keys)".
permissions_for(keys, ps, r) ==
    LET perm_docs == Permission_get_many_by_keys(ps, keys)
        sorted == SortedKeys(keys)
    IN  [i \in 1..Len(sorted) |-> permission_grant(sorted[i], perm_docs, r)]

permissions_out(rs, ps, final, r) == permissions_for(permission_keys(rs, final), ps, r)

\* Mutant: only the names of stored roles are returned.
resolve_StoredRolesOnly(us, gs, rs, ps, pols, r) ==
    LET final == roles_final(us, gs, pols, r)
    IN  [roles |-> SortedNames({n \in final : Role_get_by_name(rs, n) # <<>>}),
         permissions |-> permissions_out(rs, ps, final, r),
         policies_applied |-> matched(us, pols, r).applied]

\* Resolver.resolve: the returned dict.
resolve(us, gs, rs, ps, pols, r) ==
    LET final == roles_final(us, gs, pols, r)
    IN  [roles |-> SortedNames(final),
         permissions |-> permissions_out(rs, ps, final, r),
         policies_applied |-> matched(us, pols, r).applied]

\* The orders in which Python may iterate over the set S.
Orders(S) == {o \in [1..Cardinality(S) -> S] : {o[i] : i \in 1..Cardinality(S)} = S}

\* Mutant: each pass assigns the group's roles instead of adding them.
RECURSIVE group_roles_loop_LastWins(_, _, _)
group_roles_loop_LastWins(acc, gorder, gs) ==
    IF gorder = <<>> THEN acc
    ELSE LET g == Group_get_by_name(gs, Head(gorder))
         IN  group_roles_loop_LastWins(IF g # <<>> THEN g[1].role_names ELSE acc,
                                       Tail(gorder), gs)

\* The loop "for gname in user_groups", run in the order gorder, from the
\* accumulator acc.
RECURSIVE group_roles_loop(_, _, _)
group_roles_loop(acc, gorder, gs) ==
    IF gorder = <<>> THEN acc
    ELSE LET g == Group_get_by_name(gs, Head(gorder))
         IN  group_roles_loop(IF g # <<>> THEN acc \cup g[1].role_names ELSE acc,
                              Tail(gorder), gs)

\* The loop "for rname in roles_final", run in the order rorder.
RECURSIVE permission_keys_loop(_, _, _)
permission_keys_loop(acc, rorder, rs) ==
    IF rorder = <<>> THEN acc
    ELSE LET ro == Role_get_by_name(rs, Head(rorder))
         IN  permission_keys_loop(IF ro # <<>> THEN acc \cup ro[1].permission_keys ELSE acc,
                                  Tail(rorder), rs)

\* roles_final, the group loop run in the order gorder.
roles_final_in_order(us, gs, pols, r, gorder) ==
    (user_roles_direct(us, r) \cup group_roles_loop({}, gorder, gs)
        \cup matched(us, pols, r).allow)
        \ matched(us, pols, r).deny

\* Mutant: the roles are expanded to keys before the denied ones are taken out.
resolve_in_order_ExpandsDenied(us, gs, rs, ps, pols, r, gorder, rorder) ==
    [roles |-> SortedNames(roles_final_in_order(us, gs, pols, r, gorder)),
     permissions |-> permissions_for(
         permission_keys(rs, user_roles_direct(us, r) \cup group_roles_loop({}, gorder, gs)
                                 \cup matched(us, pols, r).allow), ps, r),
     policies_applied |-> matched(us, pols, r).applied]

\* Resolver.resolve with the iteration orders of its two set loops made
\* explicit: gorder for user_groups, rorder for roles_final.
resolve_in_order(us, gs, rs, ps, pols, r, gorder, rorder) ==
    [roles |-> SortedNames(roles_final_in_order(us, gs, pols, r, gorder)),
     permissions |-> permissions_for(permission_keys_loop({}, rorder, rs), ps, r),
     policies_applied |-> matched(us, pols, r).applied]

\* The collections Resolver.resolve reads, in the order of its awaits: the
\* user, a group lookup per group name, the policy query, a role lookup per
\* final role, and the permission batch unless there is no key.
resolve_reads(us, gs, rs, ps, pols, r) ==
    LET final == roles_final(us, gs, pols, r)
    IN  <<"users">>
        \o (IF user_groups(us, r) # {} THEN <<"groups">> ELSE <<>>)
        \o <<"policies">>
        \o (IF final # {} THEN <<"roles">> ELSE <<>>)
        \o (IF permission_keys(rs, final) # {} THEN <<"permissions">> ELSE <<>>)

\* Mutant: a failing group lookup is caught and taken for a missing group.
resolve_or_raise_GroupFaultSwallowed(us, gs, rs, ps, pols, r, down) ==
    LET reads == resolve_reads(us, IF "groups" \in down THEN {} ELSE gs, rs, ps, pols, r)
        failing == {i \in 1..Len(reads) : reads[i] \in down \ {"groups"}}
    IN  IF failing = {}
        THEN [raised |-> None,
              result |-> resolve(us, IF "groups" \in down THEN {} ELSE gs, rs, ps, pols, r)]
        ELSE [raised |-> reads[CHOOSE i \in failing : \A j \in failing : i <= j]]

\* Resolver.resolve while the collections in down cannot be read: the first
\* await on one of them raises, and nothing in resolve catches it.
resolve_or_raise(us, gs, rs, ps, pols, r, down) ==
    LET reads == resolve_reads(us, gs, rs, ps, pols, r)
        failing == {i \in 1..Len(reads) : reads[i] \in down}
    IN  IF failing = {}
        THEN [raised |-> None, result |-> resolve(us, gs, rs, ps, pols, r)]
        ELSE [raised |-> reads[CHOOSE i \in failing : \A j \in failing : i <= j]]

(***************************************************************************)
(* HTTP answers                                                            *)
(***************************************************************************)
Admin(status) == [kind |-> "admin", status |-> status]

\* An exception no handler catches: FastAPI answers 500.
AdminRaised(exc) == [kind |-> "admin", status |-> 500, raised |-> exc]

\* bson.ObjectId(id) raises InvalidId unless id is a 24-character hex string.
MalformedId == "not-an-object-id"

IsObjectId(id) == id # MalformedId

\* _now(), in logical time.
Now == clock + 1

\* patch["updated_at"] = _now()
Stamped(doc) == [doc EXCEPT !.updated_at = Now]

\* Admin requests are told apart by their effect on the store only.
AdminReq == [op |-> "admin"]

\* Python: s.strip() on an app name; " " stands for an all-blank name.
StripName(s) == IF s = " " THEN "" ELSE s

\* PermissionDAL.create / update: app.strip() if isinstance(app, str) and app.strip() else None
NormApp(app) == IF app # None /\ Truthy(StripName(app)) THEN StripName(app) ELSE None

\* Mongo $set of a patch whose fields are options (<<>>: absent or null,
\* dropped by "if v is not None"; <<v>>: set to v).
Patched(doc, patch) ==
    [f \in DOMAIN doc |-> IF f \in DOMAIN patch /\ patch[f] # <<>> THEN patch[f][1] ELSE doc[f]]

(***************************************************************************)
(* Users: routers/admin_users.py, dal/user_dal.py                          *)
(***************************************************************************)
\* Mutant: the membership fields are under $set, not under $setOnInsert.
UpsertIdentity_ResetsMembership(issuer, subject, hints) ==
    /\ UNCHANGED outside
    /\ clock < MaxWrites
    /\ LET found == {d \in users : d.issuer = issuer /\ d.subject = subject}
           id == IF found = {} THEN ObjectId(clock + 1) ELSE (CHOOSE d \in found : TRUE)._id
       IN  users' = (users \ found) \cup
               {[_id |-> id, issuer |-> issuer, subject |-> subject,
                 preferred_username |-> hints.preferred_username,
                 email |-> hints.email, name |-> hints.name,
                 group_names |-> {}, role_names |-> {}, updated_at |-> Now]}
    /\ clock' = clock + 1
    /\ req' = AdminReq
    /\ resp' = Admin(200)
    /\ UNCHANGED <<groups, roles, permissions, policies>>

\* POST /admin/users/upsert -> UserDAL.upsert_identity
UpsertIdentity(issuer, subject, hints) ==
    /\ UNCHANGED outside
    /\ clock < MaxWrites
    /\ LET found == {d \in users : d.issuer = issuer /\ d.subject = subject}
       IN  IF found = {}
           THEN users' = users \cup
                    {[_id |-> ObjectId(clock + 1), issuer |-> issuer, subject |-> subject,
                      preferred_username |-> hints.preferred_username,
                      email |-> hints.email, name |-> hints.name,
                      group_names |-> {}, role_names |-> {}, updated_at |-> Now]}
           ELSE LET d == CHOOSE d \in found : TRUE
                IN  users' = (users \ {d}) \cup
                        {[d EXCEPT !.preferred_username = hints.preferred_username,
                                   !.email = hints.email, !.name = hints.name,
                                   !.updated_at = Now]}
    /\ clock' = clock + 1
    /\ req' = AdminReq
    /\ resp' = Admin(200)
    /\ UNCHANGED <<groups, roles, permissions, policies>>

\* PATCH /admin/users/membership -> UserDAL.set_membership
\* group_names / role_names are options: <<>> is None, <<S>> the list S.
SetMembership(issuer, subject, group_names, role_names) ==
    /\ UNCHANGED outside
    /\ LET found == {d \in users : d.issuer = issuer /\ d.subject = subject}
       IN  IF found = {}
           THEN /\ req' = AdminReq
                /\ resp' = Admin(404)
                /\ UNCHANGED <<store, clock>>
           ELSE /\ clock < MaxWrites
                /\ LET d == CHOOSE d \in found : TRUE
                   IN  users' = (users \ {d}) \cup
                           {Stamped(Patched(d, [group_names |-> group_names,
                                                role_names |-> role_names]))}
                /\ clock' = clock + 1
                /\ req' = AdminReq
                /\ resp' = Admin(200)
                /\ UNCHANGED <<groups, roles, permissions, policies>>

\* DELETE /admin/users -> UserDAL.delete_by_ref
DeleteUser(issuer, subject) ==
    /\ UNCHANGED outside
    /\ LET found == {d \in users : d.issuer = issuer /\ d.subject = subject}
       IN  IF found = {}
           THEN /\ req' = AdminReq
                /\ resp' = Admin(404)
                /\ UNCHANGED <<store, clock>>
           ELSE /\ clock < MaxWrites
                /\ users' = users \ {CHOOSE d \in found : TRUE}
                /\ clock' = clock + 1
                /\ req' = AdminReq
                /\ resp' = Admin(200)
                /\ UNCHANGED <<groups, roles, permissions, policies>>

(***************************************************************************)
(* Groups: routers/admin_groups.py, dal/group_dal.py                       *)
(***************************************************************************)
\* POST /admin/groups -> GroupDAL.create
CreateGroup(name, role_names) ==
    /\ UNCHANGED outside
    /\ req' = AdminReq
    /\ IF ~Truthy(name)
       THEN resp' = Admin(400) /\ UNCHANGED <<store, clock>>
       ELSE IF \E d \in groups : d.name = name
       THEN resp' = Admin(409) /\ UNCHANGED <<store, clock>>
       ELSE /\ clock < MaxWrites
            /\ groups' = groups \cup
                   {[_id |-> ObjectId(clock + 1), name |-> name, role_names |-> role_names,
                     updated_at |-> Now]}
            /\ clock' = clock + 1
            /\ resp' = Admin(200)
            /\ UNCHANGED <<users, roles, permissions, policies>>

\* PATCH /admin/groups/{id} -> GroupDAL.update
UpdateGroup(id, patch) ==
    /\ UNCHANGED outside
    /\ req' = AdminReq
    /\ LET found == {d \in groups : d._id = id}
       IN  IF ~IsObjectId(id)
           THEN resp' = AdminRaised("InvalidId") /\ UNCHANGED <<store, clock>>
           ELSE IF found = {}
           THEN resp' = Admin(404) /\ UNCHANGED <<store, clock>>
           ELSE LET d == CHOOSE d \in found : TRUE
                    new == Stamped(Patched(d, patch))
                IN  IF \E e \in groups \ {d} : e.name = new.name
                    THEN resp' = AdminRaised("DuplicateKeyError") /\ UNCHANGED <<store, clock>>
                    ELSE /\ clock < MaxWrites
                         /\ groups' = (groups \ {d}) \cup {new}
                         /\ clock' = clock + 1
                         /\ resp' = Admin(200)
                         /\ UNCHANGED <<users, roles, permissions, policies>>

DeleteGroup_Cascades(id) ==
    /\ UNCHANGED outside
    /\ req' = AdminReq
    /\ LET found == {d \in groups : d._id = id}
       IN  IF ~IsObjectId(id)
           THEN resp' = AdminRaised("InvalidId") /\ UNCHANGED <<store, clock>>
           ELSE IF found = {}
           THEN resp' = Admin(404) /\ UNCHANGED <<store, clock>>
           ELSE /\ clock < MaxWrites
                /\ groups' = groups \ found
                /\ users' = {[u EXCEPT !.group_names = @ \ {d.name : d \in found}] : u \in users}
                /\ clock' = clock + 1
                /\ resp' = Admin(200)
                /\ UNCHANGED <<roles, permissions, policies>>

\* DELETE /admin/groups/{id} -> GroupDAL.delete
DeleteGroup(id) ==
    /\ UNCHANGED outside
    /\ req' = AdminReq
    /\ LET found == {d \in groups : d._id = id}
       IN  IF ~IsObjectId(id)
           THEN resp' = AdminRaised("InvalidId") /\ UNCHANGED <<store, clock>>
           ELSE IF found = {}
           THEN resp' = Admin(404) /\ UNCHANGED <<store, clock>>
           ELSE /\ clock < MaxWrites
                /\ groups' = groups \ found
                /\ clock' = clock + 1
                /\ resp' = Admin(200)
                /\ UNCHANGED <<users, roles, permissions, policies>>

(***************************************************************************)
(* Roles: routers/admin_roles.py; RoleDAL (dal/role_dal.py)                *)
(***************************************************************************)
\* POST /admin/roles -> RoleDAL.create
CreateRole(name, keys) ==
    /\ UNCHANGED outside
    /\ req' = AdminReq
    /\ IF ~Truthy(name)
       THEN resp' = Admin(400) /\ UNCHANGED <<store, clock>>
       ELSE IF \E d \in roles : d.name = name
       THEN resp' = Admin(409) /\ UNCHANGED <<store, clock>>
       ELSE /\ clock < MaxWrites
            /\ roles' = roles \cup
                   {[_id |-> ObjectId(clock + 1), name |-> name, permission_keys |-> keys,
                     updated_at |-> Now]}
            /\ clock' = clock + 1
            /\ resp' = Admin(200)
            /\ UNCHANGED <<users, groups, permissions, policies>>

\* PATCH /admin/roles/{id} -> RoleDAL.update
UpdateRole(id, patch) ==
    /\ UNCHANGED outside
    /\ req' = AdminReq
    /\ LET found == {d \in roles : d._id = id}
       IN  IF found = {}
           THEN resp' = Admin(404) /\ UNCHANGED <<store, clock>>
           ELSE LET d == CHOOSE d \in found : TRUE
                    new == Stamped(Patched(d, patch))
                IN  IF \E e \in roles \ {d} : e.name = new.name
                    THEN resp' = AdminRaised("DuplicateKeyError") /\ UNCHANGED <<store, clock>>
                    ELSE /\ clock < MaxWrites
                         /\ roles' = (roles \ {d}) \cup {new}
                         /\ clock' = clock + 1
                         /\ resp' = Admin(200)
                         /\ UNCHANGED <<users, groups, permissions, policies>>

\* DELETE /admin/roles/{id} -> RoleDAL.delete
DeleteRole(id) ==
    /\ UNCHANGED outside
    /\ req' = AdminReq
    /\ LET found == {d \in roles : d._id = id}
       IN  IF found = {}
           THEN resp' = Admin(404) /\ UNCHANGED <<store, clock>>
           ELSE /\ clock < MaxWrites
                /\ roles' = roles \ found
                /\ clock' = clock + 1
                /\ resp' = Admin(200)
                /\ UNCHANGED <<users, groups, permissions, policies>>

(***************************************************************************)
(* Permissions: routers/admin_permissions.py, dal/permission_dal.py        *)
(***************************************************************************)
\* POST /admin/permissions -> PermissionDAL.create
CreatePermission(key, app) ==
    /\ UNCHANGED outside
    /\ req' = AdminReq
    /\ IF key = <<>>
       THEN resp' = Admin(400) /\ UNCHANGED <<store, clock>>
       ELSE IF \E d \in permissions : d.key = key
       THEN resp' = Admin(409) /\ UNCHANGED <<store, clock>>
       ELSE /\ clock < MaxWrites
            /\ permissions' = permissions \cup
                   {[_id |-> ObjectId(clock + 1), key |-> key,
                     resource_type |-> derive_resource_action(key)[1],
                     action |-> derive_resource_action(key)[2],
                     app |-> NormApp(app), updated_at |-> Now]}
            /\ clock' = clock + 1
            /\ resp' = Admin(200)
            /\ UNCHANGED <<users, groups, roles, policies>>

\* PermissionDAL.update: the patch as it is handed to $set.
\* patch = [key, resource_type, action, app], each an option.
permission_patch(patch) ==
    LET app == IF patch.app = <<>> THEN <<>>
               ELSE IF Truthy(StripName(patch.app[1])) THEN <<StripName(patch.app[1])>>
               ELSE <<None>>
        rt == IF patch.key # <<>> /\ patch.resource_type = <<>>
              THEN <<derive_resource_action(patch.key[1])[1]>> ELSE patch.resource_type
        act == IF patch.key # <<>> /\ patch.action = <<>>
               THEN <<derive_resource_action(patch.key[1])[2]>> ELSE patch.action
    IN  [key |-> patch.key, resource_type |-> rt, action |-> act, app |-> app]

\* PATCH /admin/permissions/{id} -> PermissionDAL.update
UpdatePermission(id, patch) ==
    /\ UNCHANGED outside
    /\ req' = AdminReq
    /\ LET found == {d \in permissions : d._id = id}
       IN  IF ~IsObjectId(id)
           THEN resp' = AdminRaised("InvalidId") /\ UNCHANGED <<store, clock>>
           ELSE IF found = {}
           THEN resp' = Admin(404) /\ UNCHANGED <<store, clock>>
           ELSE LET d == CHOOSE d \in found : TRUE
                    new == Stamped(Patched(d, permission_patch(patch)))
                IN  IF \E e \in permissions \ {d} : e.key = new.key
                    THEN resp' = AdminRaised("DuplicateKeyError") /\ UNCHANGED <<store, clock>>
                    ELSE /\ clock < MaxWrites
                         /\ permissions' = (permissions \ {d}) \cup {new}
                         /\ clock' = clock + 1
                         /\ resp' = Admin(200)
                         /\ UNCHANGED <<users, groups, roles, policies>>

\* DELETE /admin/permissions/{id} -> PermissionDAL.delete
DeletePermission(id) ==
    /\ UNCHANGED outside
    /\ req' = AdminReq
    /\ LET found == {d \in permissions : d._id = id}
       IN  IF ~IsObjectId(id)
           THEN resp' = AdminRaised("InvalidId") /\ UNCHANGED <<store, clock>>
           ELSE IF found = {}
           THEN resp' = Admin(404) /\ UNCHANGED <<store, clock>>
           ELSE /\ clock < MaxWrites
                /\ permissions' = permissions \ found
                /\ clock' = clock + 1
                /\ resp' = Admin(200)
                /\ UNCHANGED <<users, groups, roles, policies>>

(***************************************************************************)
(* Policies: routers/admin_policies.py, dal/policy_dal.py                  *)
(***************************************************************************)
\* POST /admin/policies -> PolicyDAL.create; the payload is stored as sent.
CreatePolicy(payload) ==
    /\ UNCHANGED outside
    /\ req' = AdminReq
    /\ IF ~Truthy(payload.name)
       THEN resp' = Admin(400) /\ UNCHANGED <<store, clock>>
       ELSE IF \E d \in policies : d.name = payload.name
       THEN resp' = Admin(409) /\ UNCHANGED <<store, clock>>
       ELSE /\ clock < MaxWrites
            /\ policies' = policies \cup
                   {[_id |-> ObjectId(clock + 1), name |-> payload.name,
                     effect |-> payload.effect, priority |-> payload.priority,
                     target |-> payload.target, subjects |-> payload.subjects,
                     grant |-> payload.grant, enabled |-> payload.enabled,
                     updated_at |-> Now]}
            /\ clock' = clock + 1
            /\ resp' = Admin(200)
            /\ UNCHANGED <<users, groups, roles, permissions>>

\* PATCH /admin/policies/{id} -> PolicyDAL.update
UpdatePolicy(id, patch) ==
    /\ UNCHANGED outside
    /\ req' = AdminReq
    /\ LET found == {d \in policies : d._id = id}
       IN  IF ~IsObjectId(id)
           THEN resp' = AdminRaised("InvalidId") /\ UNCHANGED <<store, clock>>
           ELSE IF found = {}
           THEN resp' = Admin(404) /\ UNCHANGED <<store, clock>>
           ELSE LET d == CHOOSE d \in found : TRUE
                    new == Stamped(Patched(d, patch))
                IN  IF \E e \in policies \ {d} : e.name = new.name
                    THEN resp' = AdminRaised("DuplicateKeyError") /\ UNCHANGED <<store, clock>>
                    ELSE /\ clock < MaxWrites
                         /\ policies' = (policies \ {d}) \cup {new}
                         /\ clock' = clock + 1
                         /\ resp' = Admin(200)
                         /\ UNCHANGED <<users, groups, roles, permissions>>

\* DELETE /admin/policies/{id} -> PolicyDAL.delete
DeletePolicy(id) ==
    /\ UNCHANGED outside
    /\ req' = AdminReq
    /\ LET found == {d \in policies : d._id = id}
       IN  IF ~IsObjectId(id)
           THEN resp' = AdminRaised("InvalidId") /\ UNCHANGED <<store, clock>>
           ELSE IF found = {}
           THEN resp' = Admin(404) /\ UNCHANGED <<store, clock>>
           ELSE /\ clock < MaxWrites
                /\ policies' = policies \ found
                /\ clock' = clock + 1
                /\ resp' = Admin(200)
                /\ UNCHANGED <<users, groups, roles, permissions>>

(***************************************************************************)
(* POST /resolve: routers/resolve_routes.py                                *)
(***************************************************************************)
ResolveReq(issuer, subject, platform, workspace_id, context) ==
    [op |-> "resolve", issuer |-> issuer, subject |-> subject, platform |-> platform,
     workspace_id |-> workspace_id, context |-> context]

\* The route's own copy of the normalisation, for the echoed fields.
route_platform_eff(r) ==
    IF r.context # <<>> /\ Truthy(r.context[1].platform) THEN r.context[1].platform
    ELSE r.platform

route_workspace_eff(r) ==
    IF /\ r.context # <<>>
       /\ r.context[1].resource # <<>>
       /\ r.context[1].resource[1].type = "workspace"
       /\ Truthy(r.context[1].resource[1].id)
    THEN r.context[1].resource[1].id
    ELSE r.workspace_id

ResolveResponse(r, result) ==
    [kind |-> "resolve", status |-> 200, authenticated |-> TRUE,
     issuer |-> r.issuer, subject |-> r.subject,
     platform |-> route_platform_eff(r), workspace_id |-> route_workspace_eff(r),
     roles |-> result.roles, permissions |-> result.permissions,
     policies_applied |-> result.policies_applied, expires_at |-> None]

Resolve(r) ==
    /\ UNCHANGED outside
    /\ req' = r
    /\ resp' = ResolveResponse(r, resolve(users, groups, roles, permissions, policies, r))
    /\ UNCHANGED <<store, clock>>

\* POST /resolve, the resolver's set loops running in any order.
ResolveInOrder(r) ==
    /\ UNCHANGED outside
    /\ \E gorder \in Orders(user_groups(users, r)) :
           \E rorder \in Orders(roles_final_in_order(users, groups, policies, r, gorder)) :
               /\ req' = r
               /\ resp' = ResolveResponse(r, resolve_in_order(users, groups, roles, permissions,
                                                              policies, r, gorder, rorder))
               /\ UNCHANGED <<store, clock>>

\* The answer to a resolve that raised: the route has no handler either.
ResolveFailure(collection) ==
    [kind |-> "resolve", status |-> 500, raised |-> "StoreUnavailable",
     collection |-> collection]

\* A resolve request together with the collections that cannot be read
\* while it is served.
FaultyReq(r, down) ==
    [op |-> r.op, issuer |-> r.issuer, subject |-> r.subject, platform |-> r.platform,
     workspace_id |-> r.workspace_id, context |-> r.context, down |-> down]

\* POST /resolve while the collections in down cannot be read.
ResolveFaulty(r, down) ==
    /\ UNCHANGED outside
    /\ LET out == resolve_or_raise(users, groups, roles, permissions, policies, r, down)
       IN  /\ req' = FaultyReq(r, down)
           /\ resp' = IF out.raised # None THEN ResolveFailure(out.raised)
                      ELSE ResolveResponse(r, out.result)
           /\ UNCHANGED <<store, clock>>

(***************************************************************************)
(* POST /resolve served await by await: services/resolver.py.  Every       *)
(* awaited store read is a step of its own, and the handlers of other      *)
(* requests run between the steps.                                         *)
(***************************************************************************)
\* The call after looking at the store once more: the answer a resolve of the
\* present store alone would give is noted, and so is whether more than one
\* write was done since the call last looked.
Observed(c) ==
    [c EXCEPT !.answers = @ \cup {resolve(users, groups, roles, permissions, policies, c.r)},
              !.missed = @ \/ clock > c.at + 1,
              !.at = clock]

\* resolve is called: lines 43-60 run, nothing is read yet.
ResolveStart(r) ==
    /\ call.pc \in {"idle", "returned"}
    /\ call' = [pc |-> "user", r |-> r, user |-> {}, gpending |-> {}, group_roles |-> {},
                found |-> [applied |-> <<>>, allow |-> {}, deny |-> {}],
                final |-> {}, rpending |-> {}, keys |-> {}, result |-> <<>>,
                answers |-> {resolve(users, groups, roles, permissions, policies, r)},
                at |-> clock, missed |-> FALSE]
    /\ UNCHANGED <<store, clock, req, resp, passport, notification>>

\* await user_dal.get_by_ref (line 65)
ReadUser ==
    /\ call.pc = "user"
    /\ LET user == Range(User_get_by_ref(users, call.r.issuer, call.r.subject))
       IN  call' = [Observed(call) EXCEPT !.pc = "groups", !.user = user,
                                          !.gpending = user_groups(user, call.r)]
    /\ UNCHANGED <<store, clock, req, resp, passport, notification>>

\* await group_dal.get_by_name(gname) (lines 73-76), in any order
ReadGroup(gname) ==
    /\ call.pc = "groups"
    /\ gname \in call.gpending
    /\ call' = [Observed(call) EXCEPT
                    !.gpending = @ \ {gname},
                    !.group_roles = group_roles_loop(@, <<gname>>, groups)]
    /\ UNCHANGED <<store, clock, req, resp, passport, notification>>

\* await policy_dal.find_applicable, the policy loop and roles_final
\* (lines 85-119)
ReadPolicies ==
    /\ call.pc = "groups"
    /\ call.gpending = {}
    /\ LET found == matched(call.user, policies, call.r)
           final == (user_roles_direct(call.user, call.r) \cup call.group_roles
                        \cup found.allow) \ found.deny
       IN  call' = [Observed(call) EXCEPT !.pc = "roles", !.found = found,
                                          !.final = final, !.rpending = final]
    /\ UNCHANGED <<store, clock, req, resp, passport, notification>>

\* await role_dal.get_by_name(rname) (lines 125-128), in any order
ReadRole(rname) ==
    /\ call.pc = "roles"
    /\ rname \in call.rpending
    /\ call' = [Observed(call) EXCEPT
                    !.rpending = @ \ {rname},
                    !.keys = permission_keys_loop(@, <<rname>>, roles)]
    /\ UNCHANGED <<store, clock, req, resp, passport, notification>>

\* await permission_dal.get_many_by_keys, the binding and the return
\* (lines 131-157); the route answers.
ResolveReturn ==
    /\ call.pc = "roles"
    /\ call.rpending = {}
    /\ LET result == [roles |-> SortedNames(call.final),
                      permissions |-> permissions_for(call.keys, permissions, call.r),
                      policies_applied |-> call.found.applied]
       IN  /\ call' = [Observed(call) EXCEPT !.pc = "returned", !.result = <<result>>]
           /\ req' = call.r
           /\ resp' = ResolveResponse(call.r, result)
    /\ UNCHANGED <<store, clock, passport, notification>>

(***************************************************************************)
(* Passport service (services/passport-service): the session store, the    *)
(* handoff store and the /auth routes.  Time is counted in ticks,          *)
(* TicksPerSecond of them to a second, so that int(time.time()) is a       *)
(* conversion that loses something.                                        *)
(***************************************************************************)
TicksPerSecond == 2
MaxTime == 7
MaxMinted == 2

\* settings.SESSION_TTL_SECONDS, an environment setting.
SESSION_TTL_SECONDS == 1

\* ttl_seconds of the code issued by /auth/vscode/finish.
HandoffTtlSeconds == 60

\* The ttl_seconds that callers of issue_code pass.
Ttls == {0, 1}

\* int(time.time())
Seconds(t) == t \div TicksPerSecond

\* uuid.uuid4(): the n-th one made.
Uuid(n) == "uuid" \o ToString(n)

Minted == {Uuid(n) : n \in 1..minted}

\* What no passport route touches.
sentinel == <<store, clock, call>>

\* InMemoryHandoffStore.issue_code, the uuid and the time given.  issued_at
\* is not a field of the stored record: it keeps time.time() of the call
\* before int() truncates it.
issue_code(cs, code, sid, ttl_seconds, t) ==
    {c \in cs : c.code # code}
        \cup {[code |-> code, sid |-> sid, created_at |-> Seconds(t),
               expires_at |-> Seconds(t) + ttl_seconds, issued_at |-> t]}

\* Mutant: the record is read and left in the store.
pop_sid_Peek(cs, code, t) ==
    LET rec == {c \in cs : c.code = code}
    IN  [codes |-> cs,
         sid |-> IF rec = {} THEN None
                 ELSE LET c == CHOOSE c \in rec : TRUE
                      IN  IF Seconds(t) > c.expires_at THEN None ELSE c.sid]

\* InMemoryHandoffStore.pop_sid: the store after it, and what it returns.
pop_sid(cs, code, t) ==
    LET rec == {c \in cs : c.code = code}
    IN  [codes |-> cs \ rec,
         sid |-> IF rec = {} THEN None
                 ELSE LET c == CHOOSE c \in rec : TRUE
                      IN  IF Seconds(t) > c.expires_at THEN None ELSE c.sid]

\* InMemorySessionStore.set: expires_at = time.time() + ttl_seconds
session_set(ss, sid, data, ttl_seconds, t) ==
    {s \in ss : s.sid # sid}
        \cup {[sid |-> sid, data |-> data, expires_at |-> t + ttl_seconds * TicksPerSecond]}

\* Mutant: an expired record is still served.
session_get_NoExpiry(ss, sid, t) ==
    LET rec == {s \in ss : s.sid = sid}
    IN  IF rec = {} THEN [sessions |-> ss, data |-> <<>>]
        ELSE [sessions |-> ss, data |-> <<(CHOOSE s \in rec : TRUE).data>>]

\* InMemorySessionStore.get: the store after it, and the data or None (<<>>).
session_get(ss, sid, t) ==
    LET rec == {s \in ss : s.sid = sid}
    IN  IF rec = {} THEN [sessions |-> ss, data |-> <<>>]
        ELSE LET s == CHOOSE s \in rec : TRUE
             IN  IF s.expires_at < t THEN [sessions |-> ss \ rec, data |-> <<>>]
                 ELSE [sessions |-> ss, data |-> <<s.data>>]

\* InMemorySessionStore.delete
session_delete(ss, sid) == {s \in ss : s.sid # sid}

\* _session_contract_from_sid: the store after the get, and the contract or
\* None (<<>>).
session_contract(ss, sid, t) ==
    LET got == session_get(ss, sid, t)
    IN  [sessions |-> got.sessions,
         contract |->
             IF got.data = <<>> THEN <<>>
             ELSE <<[authenticated |-> TRUE,
                     user |-> [sub |-> got.data[1].id_claims.sub,
                               issuer |-> got.data[1].id_claims.iss],
                     roles |-> got.data[1].authorization.roles,
                     permissions |-> got.data[1].authorization.permissions,
                     expires_at |-> got.data[1].expires_at]>>]

\* Mutant: a failed resolve leaves the caller with a role.
resolve_authorization_Stale(answer) ==
    IF answer = <<>>
    THEN [roles |-> <<"r1">>, permissions |-> <<>>, policies_applied |-> <<>>]
    ELSE [roles |-> answer[1].roles, permissions |-> answer[1].permissions,
          policies_applied |-> answer[1].policies_applied]

\* resolve_authorization: Sentinel's answer, or the empty authorization when
\* the call fails or times out.
resolve_authorization(answer) ==
    IF answer = <<>>
    THEN [roles |-> <<>>, permissions |-> <<>>, policies_applied |-> <<>>]
    ELSE [roles |-> answer[1].roles, permissions |-> answer[1].permissions,
          policies_applied |-> answer[1].policies_applied]

\* UserDAL.upsert_identity as Sentinel serves it for the callback.
upsert_identity(us, issuer, subject, hints, id, now) ==
    LET found == {d \in us : d.issuer = issuer /\ d.subject = subject}
    IN  IF found = {}
        THEN us \cup {[_id |-> id, issuer |-> issuer, subject |-> subject,
                       preferred_username |-> hints.preferred_username,
                       email |-> hints.email, name |-> hints.name,
                       group_names |-> {}, role_names |-> {}, updated_at |-> now]}
        ELSE LET d == CHOOSE d \in found : TRUE
             IN  (us \ {d}) \cup
                     {[d EXCEPT !.preferred_username = hints.preferred_username,
                                !.email = hints.email, !.name = hints.name,
                                !.updated_at = now]}

PassportReq(op, arg) == [op |-> op, arg |-> arg]

\* A passport answer: the status, the JSON body if any, the session cookie it
\* sets ("cleared" when it deletes it), the exception that ended the request.
Answer(status, body, cookie) ==
    [kind |-> "passport", status |-> status, body |-> body, cookie |-> cookie,
     raised |-> None]

PassportRaised(exc) ==
    [kind |-> "passport", status |-> 500, body |-> None, cookie |-> None, raised |-> exc]

Unauthenticated == Answer(401, [authenticated |-> FALSE], None)

\* time.time() moves on.
Pass ==
    /\ time < MaxTime
    /\ time' = time + 1
    /\ UNCHANGED <<sentinel, req, resp, sessions, codes, flows, app_state, minted, notification>>

\* GET /auth/login
Login(idp) ==
    /\ req' = PassportReq("login", None)
    /\ IF idp # "ok"
       THEN resp' = PassportRaised("OIDCError") /\ UNCHANGED <<flows, minted>>
       ELSE /\ minted < MaxMinted
            /\ flows' = flows \cup {Uuid(minted + 1)}
            /\ minted' = minted + 1
            /\ resp' = Answer(302, [state |-> Uuid(minted + 1)], None)
    /\ UNCHANGED <<sentinel, time, sessions, codes, app_state, notification>>

\* GET /auth/callback.  idp says how the identity provider behaves, claims
\* is the id_token it gives, up and res say whether Sentinel answers the
\* user-mapping upsert and the resolve.
Callback(state, idp, claims, up, res) ==
    /\ req' = [op |-> "callback", arg |-> state, idp |-> idp, claims |-> claims,
               up |-> up, res |-> res]
    /\ IF idp = "no_metadata"
       THEN /\ resp' = PassportRaised("OIDCError")
            /\ UNCHANGED <<flows, sessions, minted, users, clock>>
       ELSE IF ~Truthy(state) \/ state \notin flows
       THEN /\ resp' = Answer(400, None, None)
            /\ UNCHANGED <<flows, sessions, minted, users, clock>>
       ELSE IF idp = "no_token"
       THEN /\ flows' = flows \ {state}
            /\ resp' = PassportRaised("OAuthError")
            /\ UNCHANGED <<sessions, minted, users, clock>>
       ELSE IF ~Truthy(claims.iss) \/ ~Truthy(claims.sub)
       THEN /\ flows' = flows \ {state}
            /\ resp' = Answer(400, None, None)
            /\ UNCHANGED <<sessions, minted, users, clock>>
       ELSE /\ minted < MaxMinted
            /\ up = "ok" => clock < MaxWrites
            /\ flows' = flows \ {state}
            /\ users' = IF up = "ok"
                        THEN upsert_identity(users, claims.iss, claims.sub,
                                             [preferred_username |-> claims.sub,
                                              email |-> None, name |-> None],
                                             ObjectId(clock + 1), Now)
                        ELSE users
            /\ clock' = IF up = "ok" THEN clock + 1 ELSE clock
            /\ minted' = minted + 1
            /\ LET answer ==
                       IF res = "ok"
                       THEN <<resolve(users', groups, roles, permissions, policies,
                                      ResolveReq(claims.iss, claims.sub, None, None, <<>>))>>
                       ELSE <<>>
                   authz == resolve_authorization(answer)
                   sid == Uuid(minted + 1)
                   data == [created_at |-> Seconds(time),
                            expires_at |-> Seconds(time) + SESSION_TTL_SECONDS,
                            id_claims |-> claims,
                            authorization |->
                                [roles |-> authz.roles, permissions |-> authz.permissions,
                                 policies_applied |-> authz.policies_applied,
                                 resolved_at |-> Seconds(time)]]
               IN  /\ sessions' = session_set(sessions, sid, data, SESSION_TTL_SECONDS, time)
                   /\ resp' = Answer(302, None, sid)
    /\ UNCHANGED <<groups, roles, permissions, policies, call, time, codes, app_state,
                   notification>>

\* GET /auth/session.  cookie is the sid of the signed session cookie, or None.
Session(cookie) ==
    /\ req' = PassportReq("session", cookie)
    /\ IF cookie = None
       THEN resp' = Unauthenticated /\ UNCHANGED sessions
       ELSE LET c == session_contract(sessions, cookie, time)
            IN  /\ sessions' = c.sessions
                /\ resp' = IF c.contract = <<>> THEN Unauthenticated
                           ELSE Answer(200, c.contract[1], None)
    /\ UNCHANGED <<sentinel, time, codes, flows, app_state, minted, notification>>

\* GET /auth/vscode/finish.  uri_ok says whether redirect_uri is a valid
\* vscode URI.
VscodeFinish(cookie, uri_ok) ==
    /\ req' = PassportReq("vscode_finish", cookie)
    /\ IF ~uri_ok
       THEN resp' = Answer(400, None, None) /\ UNCHANGED <<sessions, codes, minted>>
       ELSE IF cookie = None
       THEN resp' = Answer(401, None, None) /\ UNCHANGED <<sessions, codes, minted>>
       ELSE LET c == session_contract(sessions, cookie, time)
            IN  /\ sessions' = c.sessions
                /\ IF c.contract = <<>>
                   THEN resp' = Answer(401, None, None) /\ UNCHANGED <<codes, minted>>
                   ELSE IF "handoff_store" \notin app_state
                   THEN resp' = PassportRaised("AttributeError") /\ UNCHANGED <<codes, minted>>
                   ELSE /\ minted < MaxMinted
                        /\ codes' = issue_code(codes, Uuid(minted + 1), cookie,
                                               HandoffTtlSeconds, time)
                        /\ minted' = minted + 1
                        /\ resp' = Answer(200, [code |-> Uuid(minted + 1)], None)
    /\ UNCHANGED <<sentinel, time, flows, app_state, notification>>

\* POST /auth/handoff/exchange
HandoffExchange(code) ==
    /\ req' = PassportReq("handoff_exchange", code)
    /\ IF ~Truthy(code)
       THEN resp' = Answer(400, None, None) /\ UNCHANGED <<sessions, codes>>
       ELSE IF "handoff_store" \notin app_state
       THEN resp' = PassportRaised("AttributeError") /\ UNCHANGED <<sessions, codes>>
       ELSE LET p == pop_sid(codes, code, time)
            IN  /\ codes' = p.codes
                /\ IF p.sid = None
                   THEN resp' = Answer(400, None, None) /\ UNCHANGED sessions
                   ELSE LET c == session_contract(sessions, p.sid, time)
                        IN  /\ sessions' = c.sessions
                            /\ resp' = IF c.contract = <<>> THEN Answer(401, None, None)
                                       ELSE Answer(200, [sid |-> p.sid,
                                                         session |-> c.contract[1]], None)
    /\ UNCHANGED <<sentinel, time, flows, app_state, minted, notification>>

\* GET /auth/handoff/session
HandoffSession(sid) ==
    /\ req' = PassportReq("handoff_session", sid)
    /\ IF ~Truthy(sid)
       THEN resp' = Answer(400, None, None) /\ UNCHANGED sessions
       ELSE LET c == session_contract(sessions, sid, time)
            IN  /\ sessions' = c.sessions
                /\ resp' = IF c.contract = <<>> THEN Unauthenticated
                           ELSE Answer(200, c.contract[1], None)
    /\ UNCHANGED <<sentinel, time, codes, flows, app_state, minted, notification>>

\* POST /auth/handoff/logout
HandoffLogout(sid) ==
    /\ req' = PassportReq("handoff_logout", sid)
    /\ IF ~Truthy(sid)
       THEN resp' = Answer(400, None, None) /\ UNCHANGED sessions
       ELSE /\ sessions' = session_delete(sessions, sid)
            /\ resp' = Answer(200, [ok |-> TRUE], None)
    /\ UNCHANGED <<sentinel, time, codes, flows, app_state, minted, notification>>

\* POST /auth/logout (browser is FALSE) and GET /auth/logout/browser (TRUE)
Logout(cookie, browser) ==
    /\ req' = PassportReq(IF browser THEN "logout_browser" ELSE "logout", cookie)
    /\ sessions' = IF cookie # None THEN session_delete(sessions, cookie) ELSE sessions
    /\ resp' = Answer(IF browser THEN 302 ELSE 200, [ok |-> TRUE], "cleared")
    /\ UNCHANGED <<sentinel, time, codes, flows, app_state, minted, notification>>

\* InMemoryHandoffStore.issue_code called on the store
IssueCode(sid, ttl_seconds) ==
    /\ minted < MaxMinted
    /\ codes' = issue_code(codes, Uuid(minted + 1), sid, ttl_seconds, time)
    /\ minted' = minted + 1
    /\ req' = PassportReq("issue_code", sid)
    /\ resp' = [kind |-> "handoff", code |-> Uuid(minted + 1), sid |-> None]
    /\ UNCHANGED <<sentinel, time, sessions, flows, app_state, notification>>

\* InMemoryHandoffStore.pop_sid called on the store
PopSid(code) ==
    /\ codes' = pop_sid(codes, code, time).codes
    /\ req' = PassportReq("pop_sid", code)
    /\ resp' = [kind |-> "handoff", code |-> code, sid |-> pop_sid(codes, code, time).sid]
    /\ UNCHANGED <<sentinel, time, sessions, flows, app_state, minted, notification>>

(***************************************************************************)
(* Notification service (services/notification-service): WebSocketManager  *)
(* and the websocket endpoint.  Every await is a step; taking the lock and  *)
(* the block under it are two steps.                                       *)
(***************************************************************************)
\* The broadcasts other than b0 that are running note ws in field.
Noted(bc, field, ws, b0) ==
    [b \in Broadcasts |->
        IF b # b0 /\ bc[b].pc \in {"sending", "prune_wait", "pruning"}
        THEN [bc[b] EXCEPT ![field] = @ \cup ws]
        ELSE bc[b]]

\* ws_endpoint -> connect: await websocket.accept()
Accept(w) ==
    /\ conns[w] = "new"
    /\ conns' = [conns EXCEPT ![w] = "accepted"]
    /\ UNCHANGED <<sentinel, req, resp, passport, clients, lock, bcast>>

\* connect: async with self._lock
ConnectLock(w) ==
    /\ conns[w] = "accepted"
    /\ lock = None
    /\ lock' = w
    /\ conns' = [conns EXCEPT ![w] = "adding"]
    /\ UNCHANGED <<sentinel, req, resp, passport, clients, bcast>>

\* connect: self._clients.add(websocket), and the lock is released
ConnectAdd(w) ==
    /\ conns[w] = "adding"
    /\ clients' = clients \cup {w}
    /\ lock' = None
    /\ conns' = [conns EXCEPT ![w] = "open"]
    /\ bcast' = Noted(bcast, "joined", {w}, None)
    /\ UNCHANGED <<sentinel, req, resp, passport>>

\* ws_endpoint: receive_text raises WebSocketDisconnect, finally: disconnect
Disconnected(w) ==
    /\ conns[w] = "open"
    /\ conns' = [conns EXCEPT ![w] = "closing"]
    /\ UNCHANGED <<sentinel, req, resp, passport, clients, lock, bcast>>

\* disconnect: async with self._lock
DisconnectLock(w) ==
    /\ conns[w] = "closing"
    /\ lock = None
    /\ lock' = w
    /\ conns' = [conns EXCEPT ![w] = "discarding"]
    /\ UNCHANGED <<sentinel, req, resp, passport, clients, bcast>>

\* disconnect: self._clients.discard(websocket), and the lock is released
DisconnectDiscard(w) ==
    /\ conns[w] = "discarding"
    /\ clients' = clients \ {w}
    /\ lock' = None
    /\ conns' = [conns EXCEPT ![w] = "closed"]
    /\ bcast' = Noted(bcast, "left", {w}, None)
    /\ UNCHANGED <<sentinel, req, resp, passport>>

\* broadcast: async with self._lock
BroadcastLock(b) ==
    /\ bcast[b].pc = "idle"
    /\ lock = None
    /\ lock' = b
    /\ bcast' = [bcast EXCEPT ![b] = [@ EXCEPT !.pc = "snapshot"]]
    /\ UNCHANGED <<sentinel, req, resp, passport, clients, conns>>

\* broadcast: clients = list(self._clients), the lock is released, and
\* "if not clients: return"
BroadcastSnapshot(b) ==
    /\ bcast[b].pc = "snapshot"
    /\ lock' = None
    /\ bcast' = [bcast EXCEPT ![b] =
                    [@ EXCEPT !.pc = IF clients = {} THEN "returned" ELSE "sending",
                              !.snapshot = clients, !.pending = clients,
                              !.at_return = clients]]
    /\ UNCHANGED <<sentinel, req, resp, passport, clients, conns>>

\* broadcast: one turn of the loop, await ws.send_text(message); ok says
\* whether it returns or raises.  After the last turn, "if stale".
Send(b, w, ok) ==
    /\ bcast[b].pc = "sending"
    /\ w \in bcast[b].pending
    /\ LET pending == bcast[b].pending \ {w}
           stale == IF ok THEN bcast[b].stale ELSE bcast[b].stale \cup {w}
       IN  bcast' = [bcast EXCEPT ![b] =
                        [@ EXCEPT !.pending = pending,
                                  !.stale = stale,
                                  !.sent = IF ok THEN @ \cup {w} ELSE @,
                                  !.pc = IF pending # {} THEN "sending"
                                         ELSE IF stale # {} THEN "prune_wait"
                                         ELSE "returned",
                                  !.at_return = clients]]
    /\ UNCHANGED <<sentinel, req, resp, passport, clients, lock, conns>>

\* broadcast: the second async with self._lock
PruneLock(b) ==
    /\ bcast[b].pc = "prune_wait"
    /\ lock = None
    /\ lock' = b
    /\ bcast' = [bcast EXCEPT ![b] = [@ EXCEPT !.pc = "pruning"]]
    /\ UNCHANGED <<sentinel, req, resp, passport, clients, conns>>

\* Mutant: every client of the snapshot is discarded.
Prune_Snapshot(b) ==
    /\ bcast[b].pc = "pruning"
    /\ clients' = clients \ bcast[b].snapshot
    /\ lock' = None
    /\ bcast' = [Noted(bcast, "pruned", bcast[b].stale \cap clients, b)
                    EXCEPT ![b] = [@ EXCEPT !.pc = "returned", !.at_return = clients']]
    /\ UNCHANGED <<sentinel, req, resp, passport, conns>>

\* broadcast: for ws in stale: self._clients.discard(ws), the lock is
\* released, and broadcast returns
Prune(b) ==
    /\ bcast[b].pc = "pruning"
    /\ clients' = clients \ bcast[b].stale
    /\ lock' = None
    /\ bcast' = [Noted(bcast, "pruned", bcast[b].stale \cap clients, b)
                    EXCEPT ![b] = [@ EXCEPT !.pc = "returned", !.at_return = clients']]
    /\ UNCHANGED <<sentinel, req, resp, passport, conns>>

(***************************************************************************)
(* Documents and inputs of the specifications                              *)
(***************************************************************************)
NoHints == [preferred_username |-> None, email |-> None, name |-> None]

UserDoc(id, subject, gnames, rnames) ==
    [_id |-> id, issuer |-> "kc", subject |-> subject,
     preferred_username |-> None, email |-> None, name |-> None,
     group_names |-> gnames, role_names |-> rnames, updated_at |-> 0]

GroupDoc(id, name, rnames) ==
    [_id |-> id, name |-> name, role_names |-> rnames, updated_at |-> 0]

RoleDoc(id, name, keys) ==
    [_id |-> id, name |-> name, permission_keys |-> keys, updated_at |-> 0]

PolicyDoc(id, payload) ==
    [_id |-> id, name |-> payload.name, effect |-> payload.effect,
     priority |-> payload.priority, target |-> payload.target,
     subjects |-> payload.subjects, grant |-> payload.grant, enabled |-> payload.enabled,
     updated_at |-> 0]

Target(platform, workspace_id) == [platform |-> platform, workspace_id |-> workspace_id]

SubjectsOf(refs, gnames) == [user_refs |-> refs, group_names |-> gnames]

Ref(issuer, subject) == [issuer |-> issuer, subject |-> subject]

Grant(rnames) == [role_names |-> rnames]

\* A policy payload, and the payloads that differ from it in one field.
BasePayload(name, effect) ==
    [name |-> name, effect |-> effect, priority |-> 100,
     target |-> Target("astra", None),
     subjects |-> SubjectsOf({Ref("kc", "u1")}, {}),
     grant |-> Grant({"r1"}), enabled |-> TRUE]

PolicyVariants(b) ==
    {b}
    \cup {[b EXCEPT !.priority = 1], [b EXCEPT !.enabled = FALSE]}
    \cup {[b EXCEPT !.target = t] : t \in {Target("astra", "ws1"), Target("raina", None)}}
    \cup {[b EXCEPT !.subjects = x] :
            x \in {SubjectsOf({}, {"g1"}), SubjectsOf({Ref("kc", "u2")}, {"g2"}),
                   SubjectsOf({Ref("kx", "u1")}, {})}}
    \cup {[b EXCEPT !.grant = Grant(g)] : g \in {{}, {"r2"}, {"r1", "r2"}}}

PolicyPayloads ==
    UNION {PolicyVariants(BasePayload(n, e)) : n \in {"p1", "p2"}, e \in {"allow", "deny"}}

NoPolicyPatch ==
    [name |-> <<>>, effect |-> <<>>, priority |-> <<>>, target |-> <<>>,
     subjects |-> <<>>, grant |-> <<>>, enabled |-> <<>>]

PolicyPatches ==
    {[NoPolicyPatch EXCEPT !.enabled = <<FALSE>>],
     [NoPolicyPatch EXCEPT !.effect = <<"deny">>],
     [NoPolicyPatch EXCEPT !.priority = <<1>>],
     [NoPolicyPatch EXCEPT !.name = <<"">>],
     [NoPolicyPatch EXCEPT !.name = <<"p2">>],
     [NoPolicyPatch EXCEPT !.grant = <<Grant({})>>],
     [NoPolicyPatch EXCEPT !.target = <<Target("astra", "ws2")>>]}

\* An id that no document has.
MissingId == "oid0"

Ids(col) == {d._id : d \in col} \cup {MissingId}

Requests ==
    {ResolveReq("kc", s, pl, w, <<>>) :
        s \in Subjects, pl \in {"astra"}, w \in {None, "ws2"}}
    \cup {ResolveReq("kc", s, "raina", None, <<>>) : s \in Subjects}
    \cup {ResolveReq("kc", s, "raina", "ws2",
                     <<[platform |-> "astra",
                        resource |-> <<[type |-> "workspace", id |-> "ws1"]>>]>>) :
            s \in Subjects}

(***************************************************************************)
(* Specification Spec: users, groups and policies are written; resolve     *)
(***************************************************************************)
SeedUsers ==
    {{UserDoc("seed1", "u1", {"g1", "g2"}, {})}, {UserDoc("seed1", "u1", {}, {"r2"})}}

SeedGroups == {GroupDoc("seed2", "g1", {"r1"})}

SeedRoles == {RoleDoc("seed3", "r1", {<<"workspace", ".", "read">>})}

SeedPolicies ==
    {{},
     {PolicyDoc("seed4", BasePayload("p1", "allow"))},
     {PolicyDoc("seed4", [BasePayload("p1", "allow") EXCEPT
                             !.priority = 1, !.target = Target("astra", "ws1"),
                             !.subjects = SubjectsOf({}, {"g2"}),
                             !.grant = Grant({"r1", "r2"})])},
     {PolicyDoc("seed4", [BasePayload("p1", "deny") EXCEPT !.grant = Grant({"r2"})])}}

Init ==
    /\ OutsideIdle
    /\ users \in SeedUsers
    /\ groups = SeedGroups
    /\ roles = SeedRoles
    /\ permissions = {}
    /\ policies \in SeedPolicies
    /\ clock = 0
    /\ req = AdminReq
    /\ resp = Admin(200)

Next ==
    \/ \E s \in Subjects : UpsertIdentity("kc", s, NoHints)
    \/ \E s \in Subjects, g \in {<<>>, <<{"g1"}>>, <<{"g2"}>>}, rn \in {<<>>, <<{"r1"}>>} :
           SetMembership("kc", s, g, rn)
    \/ \E s \in Subjects : DeleteUser("kc", s)
    \/ \E n \in GroupNames, rn \in {{}, {"r2"}} : CreateGroup(n, rn)
    \/ \E id \in Ids(groups), rn \in {{}, {"r1", "r2"}} :
           UpdateGroup(id, [name |-> <<>>, role_names |-> <<rn>>])
    \/ \E id \in Ids(groups) : DeleteGroup(id)
    \/ \E payload \in PolicyPayloads : CreatePolicy(payload)
    \/ \E id \in Ids(policies), patch \in PolicyPatches : UpdatePolicy(id, patch)
    \/ \E id \in Ids(policies) : DeletePolicy(id)
    \/ \E r \in Requests : Resolve(r)

Spec == Init /\ [][Next]_vars

(***************************************************************************)
(* Specification SpecExpand: roles, permissions and direct grants are      *)
(* written; resolve                                                        *)
(***************************************************************************)
KeyWorkspaceRead == <<"workspace", ".", "read">>
KeyRun == <<"run">>
KeyRunReadWrite == <<"run", ".", "read", ".", "write">>
KeyDotRead == <<".", "read">>
KeyWorkspaceDot == <<"workspace", ".">>
KeySpaced == <<" ", "workspace", " ", ".", " ", "write">>

PermissionKeys ==
    {KeyWorkspaceRead, KeyRun, KeyRunReadWrite, KeyDotRead, KeyWorkspaceDot, KeySpaced}

PermissionDoc(id, key, app) ==
    [_id |-> id, key |-> key, resource_type |-> derive_resource_action(key)[1],
     action |-> derive_resource_action(key)[2], app |-> app, updated_at |-> 0]

NoPermissionPatch == [key |-> <<>>, resource_type |-> <<>>, action |-> <<>>, app |-> <<>>]

PermissionPatches ==
    {[NoPermissionPatch EXCEPT !.resource_type = << <<"run">> >>],
     [NoPermissionPatch EXCEPT !.resource_type = << <<>> >>],
     [NoPermissionPatch EXCEPT !.action = << <<>> >>],
     [NoPermissionPatch EXCEPT !.key = <<KeyRun>>],
     [NoPermissionPatch EXCEPT !.app = <<" ">>]}

ExpandRequests ==
    {ResolveReq("kc", "u1", "astra", w, <<>>) : w \in {None, "ws1"}}
    \cup {ResolveReq("kc", "u2", "astra", None, <<>>),
          ResolveReq("kc", "u1", None, "ws1",
                     <<[platform |-> "raina",
                        resource |-> <<[type |-> "run", id |-> "ws2"]>>]>>),
          ResolveReq("kc", "u1", "astra", "ws1",
                     <<[platform |-> None,
                        resource |-> <<[type |-> "workspace", id |-> "ws2"]>>]>>)}

ExpandSeedRoles ==
    {{RoleDoc("seed2", "r1", {KeyWorkspaceRead, KeyRunReadWrite})},
     {RoleDoc("seed2", "r1", {KeyWorkspaceRead, KeyRun}),
      RoleDoc("seed3", "r2", {KeyRun, KeyDotRead})}}

ExpandSeedPermissions == {{}, {PermissionDoc("seed4", KeyWorkspaceRead, "raina")}}

InitExpand ==
    /\ OutsideIdle
    /\ users = {UserDoc("seed1", "u1", {}, {"r1", "r2"})}
    /\ groups = {}
    /\ roles \in ExpandSeedRoles
    /\ permissions \in ExpandSeedPermissions
    /\ policies = {}
    /\ clock = 0
    /\ req = AdminReq
    /\ resp = Admin(200)

NextExpand ==
    \/ \E s \in Subjects, rn \in {<<{}>>, <<{"r2"}>>} : SetMembership("kc", s, <<>>, rn)
    \/ \E n \in RoleNames, ks \in {{}, {KeySpaced, KeyWorkspaceDot}} : CreateRole(n, ks)
    \/ \E id \in Ids(roles), ks \in {{}, {KeyWorkspaceRead, KeyWorkspaceDot}} :
           UpdateRole(id, [name |-> <<>>, permission_keys |-> <<ks>>])
    \/ \E id \in Ids(roles) : DeleteRole(id)
    \/ \E k \in PermissionKeys, app \in {None, "raina"} : CreatePermission(k, app)
    \/ \E id \in Ids(permissions), patch \in PermissionPatches : UpdatePermission(id, patch)
    \/ \E id \in Ids(permissions) : DeletePermission(id)
    \/ \E r \in ExpandRequests : Resolve(r)

SpecExpand == InitExpand /\ [][NextExpand]_vars

(***************************************************************************)
(* The vocabulary of the properties, stated on the store and the request   *)
(* without the resolver's own operators                                    *)
(***************************************************************************)
\* resp answers a resolve of req against the present store.
Resolved == resp.kind = "resolve"

EffectivePlatform(r) ==
    IF r.context # <<>> /\ r.context[1].platform # None THEN r.context[1].platform
    ELSE r.platform

EffectiveWorkspace(r) ==
    IF /\ r.context # <<>>
       /\ r.context[1].resource # <<>>
       /\ r.context[1].resource[1].type = "workspace"
       /\ r.context[1].resource[1].id # None
    THEN r.context[1].resource[1].id
    ELSE r.workspace_id

InScope(p, r) ==
    /\ p.enabled
    /\ p.target.platform = EffectivePlatform(r)
    /\ p.target.workspace_id \in {None, EffectiveWorkspace(r)}

CallerDocs(us, r) == {d \in us : d.issuer = r.issuer /\ d.subject = r.subject}

CallerGroups(us, r) == UNION {d.group_names : d \in CallerDocs(us, r)}

CallerRoles(us, r) == UNION {d.role_names : d \in CallerDocs(us, r)}

StoredGroupRoles(us, gs, r) ==
    UNION {g.role_names : g \in {d \in gs : d.name \in CallerGroups(us, r)}}

SubjectMatch(p, us, r) ==
    \/ Ref(r.issuer, r.subject) \in p.subjects.user_refs
    \/ p.subjects.group_names \cap CallerGroups(us, r) # {}

Matching(us, pols, r) == {p \in pols : InScope(p, r) /\ SubjectMatch(p, us, r)}

GrantedBy(ps) == UNION {p.grant.role_names : p \in ps}

AllowRoles(us, pols, r) == GrantedBy({p \in Matching(us, pols, r) : p.effect = "allow"})

DenyRoles(us, pols, r) == GrantedBy({p \in Matching(us, pols, r) : p.effect = "deny"})

RolesOut == Range(resp.roles)

AppliedOut == Range(resp.policies_applied)

\* The name a policy is listed under: its name, or its id when the name is empty.
Listed(p) == IF p.name # "" THEN p.name ELSE p._id

\* The answer resolve gives to req on a changed store.
AnswerOn(us, gs, pols) ==
    ResolveResponse(req, resolve(us, gs, roles, permissions, pols, req))

(***************************************************************************)
(* C1 - C8                                                                 *)
(***************************************************************************)
\* C1. Deny dominance: a role granted by an enabled, in-scope, matching deny
\* policy is not in the returned roles, whatever the priorities and whatever
\* else grants it (the user, a group, allow policies).
C1_DenyDominance ==
    Resolved =>
        \A p \in policies :
            (InScope(p, req) /\ SubjectMatch(p, users, req) /\ p.effect = "deny")
                => p.grant.role_names \cap RolesOut = {}

\* A deny removes a role that an allow policy of smaller priority number, and
\* the user or a group, grant as well.
C1_Witness ==
    /\ Resolved
    /\ \E d \in Matching(users, policies, req), a \in Matching(users, policies, req) :
           /\ d.effect = "deny" /\ a.effect = "allow"
           /\ a.priority < d.priority
           /\ \E R \in d.grant.role_names \cap a.grant.role_names :
                  /\ R \in CallerRoles(users, req) \cup StoredGroupRoles(users, groups, req)
                  /\ R \notin RolesOut

\* C2. The returned roles are exactly (direct roles + roles of the stored groups
\* the user is in + roles of matching allow policies) minus the roles of matching
\* deny policies.
C2_RoleFormula ==
    Resolved =>
        RolesOut =
            (CallerRoles(users, req) \cup StoredGroupRoles(users, groups, req)
                \cup AllowRoles(users, policies, req))
            \ DenyRoles(users, policies, req)

\* A user in one stored group G with G.role_names = [R] and no other grant
\* resolves to roles = [R].
C2_Witness ==
    /\ Resolved
    /\ CallerRoles(users, req) = {}
    /\ Matching(users, policies, req) = {}
    /\ \E g \in groups :
           /\ CallerGroups(users, req) = {g.name}
           /\ \E R \in RoleNames : g.role_names = {R} /\ resp.roles = <<R>>

\* C3. Policy scope: only an enabled policy whose target.platform is the
\* effective platform and whose target.workspace_id is null or the effective
\* workspace is listed or changes the answer; a platform-wide policy (null
\* workspace_id) that matches the caller and grants a role is listed for every
\* effective workspace, none included.
C3_PolicyScope ==
    Resolved =>
        /\ AppliedOut \subseteq {Listed(p) : p \in {q \in policies : InScope(q, req)}}
        /\ resp = AnswerOn(users, groups, {p \in policies : InScope(p, req)})
        /\ \A p \in policies :
               (/\ p.enabled
                /\ p.target.platform = EffectivePlatform(req)
                /\ p.target.workspace_id = None
                /\ SubjectMatch(p, users, req)
                /\ p.grant.role_names # {})
                   => Listed(p) \in AppliedOut

\* A resolve with an effective workspace, over a store that holds a matching
\* policy scoped to another workspace and a matching platform-wide one.
C3_Witness ==
    /\ Resolved
    /\ EffectiveWorkspace(req) # None
    /\ \E p \in policies, q \in policies :
           /\ p.enabled /\ SubjectMatch(p, users, req) /\ p.grant.role_names # {}
           /\ p.target.platform = EffectivePlatform(req)
           /\ p.target.workspace_id \notin {None, EffectiveWorkspace(req)}
           /\ Listed(p) \notin AppliedOut
           /\ q.target.workspace_id = None
           /\ Listed(q) \in AppliedOut

\* C4. Subject match: the roles of an in-scope policy enter the allow set (the
\* deny set for a deny policy) iff the caller's (issuer, subject) is an element
\* of subjects.user_refs or subjects.group_names shares a name with the
\* caller's stored group_names; a policy that matches neither changes nothing.
C4_SubjectMatch ==
    Resolved =>
        /\ matched(users, policies, req).allow = AllowRoles(users, policies, req)
        /\ matched(users, policies, req).deny = DenyRoles(users, policies, req)
        /\ resp = AnswerOn(users, groups, {p \in policies : SubjectMatch(p, users, req)})

\* An in-scope policy matched through a group name, and an in-scope policy
\* that names another issuer's user of the same subject and is not matched.
C4_Witness ==
    /\ Resolved
    /\ \E p \in policies, q \in policies :
           /\ InScope(p, req) /\ InScope(q, req)
           /\ Ref(req.issuer, req.subject) \notin p.subjects.user_refs
           /\ p.subjects.group_names \cap CallerGroups(users, req) # {}
           /\ p.grant.role_names # {}
           /\ Listed(p) \in AppliedOut
           /\ \E x \in q.subjects.user_refs : x.subject = req.subject /\ x.issuer # req.issuer
           /\ q.grant.role_names # {}
           /\ Listed(q) \notin AppliedOut

\* ps listed once each, under the names label gives them, in the policy
\* query's order (priority ascending, then name ascending).
ListsInQueryOrder(seq, ps, label(_)) ==
    /\ Len(seq) = Cardinality(ps)
    /\ Range(seq) = {label(p) : p \in ps}
    /\ \A i \in 1..Len(seq), j \in 1..Len(seq) :
           i < j =>
               \A p \in ps, q \in ps :
                   (label(p) = seq[i] /\ label(q) = seq[j]) =>
                       \/ p.priority < q.priority
                       \/ p.priority = q.priority /\ StrRank(p.name) < StrRank(q.name)

NameOf(p) == p.name

\* C5 as claimed: policies_applied holds the name of every enabled policy that
\* matches the effective scope and the caller, and of no other, once each, in
\* the policy query's order.
C5_AppliedAsClaimed ==
    Resolved => ListsInQueryOrder(resp.policies_applied, Matching(users, policies, req), NameOf)

\* C5 (amended). policies_applied lists every enabled policy that matches the
\* effective scope and the caller and whose grant.role_names is not empty, and no
\* other policy, once each, under its name (under its id when its name is
\* empty), in the policy query's order: priority ascending, then name ascending.
C5_Applied ==
    Resolved =>
        ListsInQueryOrder(resp.policies_applied,
                          {p \in Matching(users, policies, req) : p.grant.role_names # {}},
                          Listed)

\* Two policies are listed, the one of smaller priority number first although
\* its name is the greater.
C5_Witness ==
    /\ Resolved
    /\ Len(resp.policies_applied) = 2
    /\ \E p \in policies, q \in policies :
           /\ resp.policies_applied = <<Listed(p), Listed(q)>>
           /\ p.priority < q.priority
           /\ StrRank(q.name) < StrRank(p.name)

\* The store with the priorities replaced by f.
Reprioritised(pols, f) == {[p EXCEPT !.priority = f[p]] : p \in pols}

\* C6. Priority never changes the decision: on a store that differs only in
\* the priorities of policies the same request gets the same roles and the same
\* permissions, and the same policies listed, in some order; no allow policy,
\* whatever its priority, overrides a matching deny of the same role.
C6_PriorityIrrelevant ==
    Resolved =>
        /\ \A f \in [policies -> Priorities] :
               LET other == AnswerOn(users, groups, Reprioritised(policies, f))
               IN  /\ other.roles = resp.roles
                   /\ other.permissions = resp.permissions
                   /\ Range(other.policies_applied) = AppliedOut
        /\ \A d \in Matching(users, policies, req), a \in Matching(users, policies, req) :
               (d.effect = "deny" /\ a.effect = "allow")
                   => d.grant.role_names \cap a.grant.role_names \cap RolesOut = {}

\* An allow and a deny of one role both match; with the priorities swapped the
\* policies are listed in the other order and the roles are the same.
C6_Witness ==
    /\ Resolved
    /\ \E d \in Matching(users, policies, req), a \in Matching(users, policies, req) :
           /\ d.effect = "deny" /\ a.effect = "allow"
           /\ d.grant.role_names \cap a.grant.role_names # {}
           /\ a.priority < d.priority
           /\ \E f \in [policies -> Priorities] :
                  /\ f[a] = d.priority /\ f[d] = a.priority
                  /\ AnswerOn(users, groups, Reprioritised(policies, f)).policies_applied
                         # resp.policies_applied

\* The users with name g taken out of the caller's group_names.
WithoutGroup(us, r, g) ==
    {IF d \in CallerDocs(us, r) THEN [d EXCEPT !.group_names = @ \ {g}] ELSE d : d \in us}

Dangling(us, gs, r) == {g \in CallerGroups(us, r) : ~\E d \in gs : d.name = g}

\* C7 as claimed: a group name of the user with no stored Group changes
\* nothing: the answer is the one the user would get without that name.
C7_MissingGroupAsClaimed ==
    Resolved =>
        \A g \in Dangling(users, groups, req) :
            resp = AnswerOn(WithoutGroup(users, req, g), groups, policies)

\* C7 (amended). A group name of the user with no stored Group contributes no
\* group roles and causes no error: resolve succeeds, and unless an enabled
\* in-scope policy names that group in subjects.group_names the answer is the
\* one the user would get without that name.
C7_MissingGroup ==
    Resolved =>
        /\ resp.status = 200
        /\ \A g \in Dangling(users, groups, req) :
               (\A p \in policies : InScope(p, req) => g \notin p.subjects.group_names)
                   => resp = AnswerOn(WithoutGroup(users, req, g), groups, policies)

\* The user is in a group with no stored Group only, another group is stored
\* with roles, and a policy is in scope: the user gets no group role.
C7_Witness ==
    /\ Resolved
    /\ Dangling(users, groups, req) # {}
    /\ Dangling(users, groups, req) = CallerGroups(users, req)
    /\ \E d \in groups : d.role_names # {}
    /\ \E p \in policies : InScope(p, req)
    /\ \A p \in policies : p.subjects.group_names \cap CallerGroups(users, req) = {}
    /\ RolesOut = CallerRoles(users, req) \cup AllowRoles(users, policies, req)

\* A user document for req's identity with no membership.
EmptyUser(r) ==
    [_id |-> MissingId, issuer |-> r.issuer, subject |-> r.subject,
     preferred_username |-> None, email |-> None, name |-> None,
     group_names |-> {}, role_names |-> {}, updated_at |-> 0]

\* C8. An (issuer, subject) with no User record resolves as a user with empty
\* group_names and role_names would, with roles, permissions and
\* policies_applied all empty when no policy matches; every resolve answer is a
\* success with authenticated = true.
C8_UnknownIdentity ==
    Resolved =>
        /\ resp.status = 200 /\ resp.authenticated = TRUE
        /\ CallerDocs(users, req) = {} =>
               /\ resp = AnswerOn(users \cup {EmptyUser(req)}, groups, policies)
               /\ Matching(users, policies, req) = {} =>
                      /\ resp.roles = <<>>
                      /\ resp.permissions = <<>>
                      /\ resp.policies_applied = <<>>

\* An identity with no User record resolves, next to a stored user of the same
\* issuer who has roles, to the empty answer.
C8_Witness ==
    /\ Resolved
    /\ CallerDocs(users, req) = {}
    /\ \E d \in users : d.issuer = req.issuer /\ d.role_names \cup d.group_names # {}
    /\ policies # {}
    /\ Matching(users, policies, req) = {}
    /\ resp.roles = <<>> /\ resp.permissions = <<>> /\ resp.policies_applied = <<>>
    /\ resp.authenticated

(***************************************************************************)
(* C9 - C10                                                                *)
(***************************************************************************)
GrantsOut == Range(resp.permissions)

\* The permission keys of the stored roles that the answer names.
KeysOfReturnedRoles == UNION {d.permission_keys : d \in {x \in roles : x.name \in RolesOut}}

HasPermissionDoc(key) == \E d \in permissions : d.key = key

\* C9. A returned role name with no stored Role adds no permission and raises no
\* error: the permissions are exactly those expanded from the returned roles
\* that have a stored Role.
C9_MissingRole ==
    Resolved =>
        /\ resp.status = 200
        /\ {g.key : g \in GrantsOut} = KeysOfReturnedRoles

\* The answer names a role that has no stored Role next to one that has, and
\* carries the permissions of the stored one.
C9_Witness ==
    /\ Resolved
    /\ \E R \in RolesOut : ~\E d \in roles : d.name = R
    /\ \E d \in roles : d.name \in RolesOut /\ d.permission_keys # {}
    /\ resp.permissions # <<>>

\* C10. Unregistered keys are kept: permissions holds exactly one grant for
\* every key of a stored Role named in roles, with or without a Permission
\* document; for a key "r.a" without a document the grant has resource_type r,
\* action a and app null, for a key without a dot resource_type "global" and
\* the key as action.
C10_UnregisteredKeys ==
    Resolved =>
        /\ Len(resp.permissions) = Cardinality(KeysOfReturnedRoles)
        /\ \A key \in KeysOfReturnedRoles : \E i \in 1..Len(resp.permissions) :
               resp.permissions[i].key = key
        /\ \A g \in GrantsOut :
               ~HasPermissionDoc(g.key) =>
                   /\ g.app = None
                   /\ \A n \in 1..Len(g.key) :
                          LET r == SubSeq(g.key, 1, n - 1)
                              a == SubSeq(g.key, n + 1, Len(g.key))
                          IN  (g.key[n] = Dot /\ Dot \notin Range(r))
                                  => g.resource_type = r /\ g.action = a
                   /\ (\A i \in 1..Len(g.key) : g.key[i] # Dot)
                          => g.resource_type = <<"global">> /\ g.action = g.key

\* One answer holds a grant for a registered key, a grant derived from an
\* unregistered dotted key and a grant derived from an unregistered key with
\* no dot.
C10_Witness ==
    /\ Resolved
    /\ \E g \in GrantsOut : HasPermissionDoc(g.key)
    /\ \E g \in GrantsOut :
           ~HasPermissionDoc(g.key) /\ HasDot(g.key) /\ g.resource_type # <<"global">>
    /\ \E g \in GrantsOut :
           ~HasPermissionDoc(g.key) /\ ~HasDot(g.key) /\ g.resource_type = <<"global">>

(***************************************************************************)
(* C11 - C12                                                               *)
(***************************************************************************)
\* The answer resolve gives to req once key is registered, the document being
\* the one PermissionDAL.create stores for it.
AnswerRegistered(key) ==
    ResolveResponse(req, resolve(users, groups, roles,
                                 permissions \cup {PermissionDoc(MissingId, key, None)},
                                 policies, req))

GrantOf(answer, key) == CHOOSE g \in Range(answer.permissions) : g.key = key

\* C11. For a key with no stored Permission the grant's (resource_type, action)
\* is the pair that Permission creation derives from the key, so that
\* registering the key leaves resource_type, action and resource_id of the
\* resolved grant as they were.
C11_DeriveEquivalence ==
    Resolved =>
        \A g \in GrantsOut :
            ~HasPermissionDoc(g.key) =>
                /\ <<g.resource_type, g.action>> = derive_resource_action(g.key)
                /\ LET h == GrantOf(AnswerRegistered(g.key), g.key)
                   IN  /\ h.resource_type = g.resource_type
                       /\ h.action = g.action
                       /\ h.resource_id = g.resource_id

\* C12. Scope binding: every grant carries the effective platform; a grant of
\* resource_type "workspace" carries the effective workspace as resource_id and
\* a grant of any other resource_type carries a null resource_id, whatever
\* resource the request context names.
C12_ScopeBinding ==
    Resolved =>
        \A g \in GrantsOut :
            /\ g.platform = EffectivePlatform(req)
            /\ g.resource_type = <<"workspace">> => g.resource_id = EffectiveWorkspace(req)
            /\ g.resource_type # <<"workspace">> => g.resource_id = None

\* The context names a resource of another type with an id; the answer holds a
\* workspace grant bound to the flat workspace_id and a grant of another
\* resource type that is bound to nothing, both on the context's platform.
C12_Witness ==
    /\ Resolved
    /\ req.context # <<>>
    /\ req.context[1].resource # <<>>
    /\ req.context[1].resource[1].id \notin {None, req.workspace_id}
    /\ req.context[1].platform \notin {None, req.platform}
    /\ req.workspace_id # None
    /\ \E g \in GrantsOut :
           /\ g.resource_type = <<"workspace">>
           /\ g.resource_id = req.workspace_id
           /\ g.platform = req.context[1].platform
    /\ \E g \in GrantsOut : g.resource_type # <<"workspace">> /\ g.resource_id = None

(***************************************************************************)
(* Specification SpecScope: requests with absent and empty scope fields,   *)
(* policies with absent and empty target platforms; resolve                *)
(***************************************************************************)
ScopeResources ==
    {<<>>} \cup {<<[type |-> t, id |-> i]>> : t \in {"workspace", "run"}, i \in {None, "", "ws2"}}

ScopeContexts ==
    {<<>>} \cup {<<[platform |-> pl, resource |-> res]>> :
                    pl \in {None, "", "raina"}, res \in ScopeResources}

ScopeRequests ==
    {ResolveReq("kc", "u1", pl, w, ctx) :
        pl \in {None, "", "astra"}, w \in {None, "ws1"}, ctx \in ScopeContexts}

\* Payloads of POST /admin/policies: the body is a free dict, so the target's
\* platform may be null (or missing) or empty.
ScopePayloads ==
    {[BasePayload("p2", "allow") EXCEPT !.target = Target(pl, None), !.grant = Grant({"r2"})] :
        pl \in {None, "", "raina"}}

ScopePatches ==
    {[NoPolicyPatch EXCEPT !.target = <<Target(None, "ws1")>>],
     [NoPolicyPatch EXCEPT !.effect = <<"deny">>]}

ScopeSeedPolicies == {{}, {PolicyDoc("seed4", BasePayload("p1", "allow"))}}

InitScope ==
    /\ OutsideIdle
    /\ users = {UserDoc("seed1", "u1", {"g1"}, {})}
    /\ groups = SeedGroups
    /\ roles = SeedRoles
    /\ permissions = {}
    /\ policies \in ScopeSeedPolicies
    /\ clock = 0
    /\ req = AdminReq
    /\ resp = Admin(200)

NextScope ==
    \/ \E payload \in ScopePayloads : CreatePolicy(payload)
    \/ \E id \in Ids(policies), patch \in ScopePatches : UpdatePolicy(id, patch)
    \/ \E r \in ScopeRequests : Resolve(r)

SpecScope == InitScope /\ [][NextScope]_vars

(***************************************************************************)
(* C13 - C14                                                               *)
(***************************************************************************)
\* The context of a request, and its resource, when they are given.
ContextOf(r) == IF r.context = <<>> THEN [platform |-> None, resource |-> <<>>] ELSE r.context[1]

ResourceOf(r) ==
    IF ContextOf(r).resource = <<>> THEN [type |-> None, id |-> None]
    ELSE ContextOf(r).resource[1]

\* The scope the answer is computed for, as far as the answer shows it: the
\* echoed platform and workspace_id, and the platform of every grant.
AnswersScope(platform, workspace_id) ==
    /\ resp.platform = platform
    /\ resp.workspace_id = workspace_id
    /\ \A g \in GrantsOut :
           /\ g.platform = platform
           /\ g.resource_type = <<"workspace">> => g.resource_id = workspace_id

\* C13 as claimed, "present" read as "not null": the effective platform is
\* context.platform when it is not null, else the flat platform; the effective
\* workspace is context.resource.id when the resource's type is "workspace"
\* and its id is not null, else the flat workspace_id.
C13_NormalisationAsClaimed ==
    Resolved =>
        /\ platform_eff(req) = EffectivePlatform(req)
        /\ workspace_eff(req) = EffectiveWorkspace(req)
        /\ AnswersScope(EffectivePlatform(req), EffectiveWorkspace(req))

Given(x) == x # None /\ x # ""

GivenPlatform(r) == IF Given(ContextOf(r).platform) THEN ContextOf(r).platform ELSE r.platform

GivenWorkspace(r) ==
    IF ResourceOf(r).type = "workspace" /\ Given(ResourceOf(r).id) THEN ResourceOf(r).id
    ELSE r.workspace_id

\* C13 (amended). The effective platform is context.platform when it is present
\* and not empty, else the flat platform; the effective workspace is
\* context.resource.id when the resource's type is "workspace" and its id is
\* present and not empty, else the flat workspace_id; a resource of another
\* type never changes the effective workspace.
C13_Normalisation ==
    Resolved =>
        /\ platform_eff(req) = GivenPlatform(req)
        /\ workspace_eff(req) = GivenWorkspace(req)
        /\ AnswersScope(GivenPlatform(req), GivenWorkspace(req))
        /\ ResourceOf(req).type # "workspace" => workspace_eff(req) = req.workspace_id

\* The context's platform and workspace resource both override different flat
\* values, and a grant shows both.
C13_Witness ==
    /\ Resolved
    /\ Given(req.platform) /\ Given(req.workspace_id)
    /\ Given(ContextOf(req).platform) /\ ContextOf(req).platform # req.platform
    /\ ResourceOf(req).type = "workspace"
    /\ Given(ResourceOf(req).id) /\ ResourceOf(req).id # req.workspace_id
    /\ \E g \in GrantsOut :
           g.platform = ContextOf(req).platform /\ g.resource_id = ResourceOf(req).id

\* C14. With an absent or empty effective platform resolve matches no policy,
\* whatever policies the admin operations have stored: policies_applied is empty
\* and the roles are the user's direct roles and the roles of their stored groups.
C14_NoPlatformNoPolicy ==
    (Resolved /\ ~Given(platform_eff(req))) =>
        /\ resp.policies_applied = <<>>
        /\ RolesOut = CallerRoles(users, req) \cup StoredGroupRoles(users, groups, req)

(***************************************************************************)
(* Specification SpecOrder: memberships, groups and policies are written;  *)
(* resolve runs its set loops in any order                                 *)
(***************************************************************************)
OrderRequests ==
    {ResolveReq("kc", "u1", "astra", w, <<>>) : w \in {None, "ws1"}}
    \cup {ResolveReq("kc", "u2", "astra", None, <<>>)}

OrderSeedGroups ==
    {{GroupDoc("seed2", "g1", {"r1"})},
     {GroupDoc("seed2", "g1", {"r1"}), GroupDoc("seed3", "g2", {"r2"})}}

OrderSeedRoles ==
    {RoleDoc("seed4", "r1", {KeyWorkspaceRead, KeyRun}),
     RoleDoc("seed5", "r2", {KeyRun, KeyDotRead, KeyRunReadWrite})}

OrderSeedPermissions == {{}, {PermissionDoc("seed6", KeyWorkspaceRead, "raina")}}

OrderSeedPolicies ==
    {{}, {PolicyDoc("seed7", [BasePayload("p1", "allow") EXCEPT !.grant = Grant({"r1", "r2"})])}}

OrderPayloads ==
    {[BasePayload("p2", e) EXCEPT !.subjects = SubjectsOf({}, {"g2"}), !.grant = Grant({"r2"})] :
        e \in {"allow", "deny"}}

InitOrder ==
    /\ OutsideIdle
    /\ users = {UserDoc("seed1", "u1", {"g1", "g2"}, {})}
    /\ groups \in OrderSeedGroups
    /\ roles = OrderSeedRoles
    /\ permissions \in OrderSeedPermissions
    /\ policies \in OrderSeedPolicies
    /\ clock = 0
    /\ req = AdminReq
    /\ resp = Admin(200)

NextOrder ==
    \/ \E g \in {<<>>, <<{"g2"}>>}, rn \in {<<>>, <<{"r1"}>>, <<{"r1", "r2"}>>} :
           SetMembership("kc", "u1", g, rn)
    \/ \E rn \in {{"r2"}, {"r1", "r2"}} : CreateGroup("g2", rn)
    \/ \E id \in Ids(groups), rn \in {{}, {"r2"}} :
           UpdateGroup(id, [name |-> <<>>, role_names |-> <<rn>>])
    \/ \E payload \in OrderPayloads : CreatePolicy(payload)
    \/ \E r \in OrderRequests : ResolveInOrder(r)

SpecOrder == InitOrder /\ [][NextOrder]_vars

(***************************************************************************)
(* C15 - C16                                                               *)
(***************************************************************************)
\* C15. Resolve is deterministic: with the store as it is, the same request
\* gets the answer resp, element order included, in whatever order the
\* resolver iterates over the user's groups and over the final roles; the
\* answer is the one the order-free reading of the loops gives.
C15_Deterministic ==
    Resolved =>
        /\ \A gorder \in Orders(CallerGroups(users, req)) :
               \A rorder \in Orders(RolesOut) :
                   resp = ResolveResponse(req, resolve_in_order(users, groups, roles, permissions,
                                                               policies, req, gorder, rorder))
        /\ resp = ResolveResponse(req, resolve(users, groups, roles, permissions, policies, req))

\* The caller is in two stored groups of different roles and gets two roles
\* whose stored Roles list different keys: both loops have two orders.
C15_Witness ==
    /\ Resolved
    /\ \E g \in groups, h \in groups :
           /\ {g.name, h.name} \subseteq CallerGroups(users, req)
           /\ g.role_names # h.role_names
           /\ g.role_names # {} /\ h.role_names # {}
    /\ \E x \in roles, y \in roles :
           /\ x.name # y.name
           /\ {x.name, y.name} \subseteq RolesOut
           /\ x.permission_keys \ y.permission_keys # {}
           /\ y.permission_keys \ x.permission_keys # {}
    /\ Len(resp.permissions) > 2

\* C16. Output order: roles is strictly ascending and permissions is strictly
\* ascending by key, so no role name and no key occurs twice, however many
\* sources contribute the same role or key.
C16_OutputOrder ==
    Resolved =>
        /\ \A i \in 1..(Len(resp.roles) - 1) : StrRank(resp.roles[i]) < StrRank(resp.roles[i + 1])
        /\ \A i \in 1..(Len(resp.permissions) - 1) :
               /\ resp.permissions[i].key # resp.permissions[i + 1].key
               /\ TokLess(resp.permissions[i].key, resp.permissions[i + 1].key)

\* A role comes from the user, from a group and from an allow policy at once, a
\* key is listed by two returned roles, and both lists have several entries.
C16_Witness ==
    /\ Resolved
    /\ Len(resp.roles) > 1
    /\ Len(resp.permissions) > 2
    /\ \E R \in RolesOut :
           /\ R \in CallerRoles(users, req)
           /\ R \in StoredGroupRoles(users, groups, req)
           /\ R \in AllowRoles(users, policies, req)
    /\ \E x \in roles, y \in roles :
           /\ x.name # y.name
           /\ {x.name, y.name} \subseteq RolesOut
           /\ x.permission_keys \cap y.permission_keys # {}

(***************************************************************************)
(* Specification SpecFault: memberships are written; resolve runs while    *)
(* some collections cannot be read                                         *)
(***************************************************************************)
Collections == {"users", "groups", "policies", "roles", "permissions"}

Outages == {{}} \cup {{c} : c \in Collections} \cup {{"groups", "roles"}}

FaultRequests == {ResolveReq("kc", s, "astra", None, <<>>) : s \in Subjects}

FaultSeedUsers ==
    {{UserDoc("seed1", "u1", {"g1"}, {})}, {UserDoc("seed1", "u1", {}, {"r2"})}}

FaultSeedPolicies == {{}, {PolicyDoc("seed4", BasePayload("p1", "allow"))}}

InitFault ==
    /\ OutsideIdle
    /\ users \in FaultSeedUsers
    /\ groups = SeedGroups
    /\ roles = SeedRoles
    /\ permissions = {}
    /\ policies \in FaultSeedPolicies
    /\ clock = 0
    /\ req = AdminReq
    /\ resp = Admin(200)

NextFault ==
    \/ \E s \in Subjects, g \in {<<>>, <<{}>>, <<{"g2"}>>}, rn \in {<<>>, <<{}>>, <<{"r1"}>>} :
           SetMembership("kc", s, g, rn)
    \/ \E r \in FaultRequests, down \in Outages : ResolveFaulty(r, down)

SpecFault == InitFault /\ [][NextFault]_vars

(***************************************************************************)
(* C17                                                                     *)
(***************************************************************************)
\* The roles the request is entitled to on the store as it is.
EntitledRoles ==
    (CallerRoles(users, req) \cup StoredGroupRoles(users, groups, req)
        \cup AllowRoles(users, policies, req))
    \ DenyRoles(users, policies, req)

\* The collections a resolve of req has to read on the store as it is.
ReadsNeeded ==
    {"users", "policies"}
    \cup (IF CallerGroups(users, req) # {} THEN {"groups"} ELSE {})
    \cup (IF EntitledRoles # {} THEN {"roles"} ELSE {})
    \cup (IF \E d \in roles : d.name \in EntitledRoles /\ d.permission_keys # {}
          THEN {"permissions"} ELSE {})

ServedUnderFaults == Resolved /\ "down" \in DOMAIN req

\* C17. No partial result: when a read that resolve makes fails, the answer is
\* that fault and carries no roles, permissions or policies_applied; it is
\* never a result computed from the reads that succeeded, nor an empty grant
\* set.  When every read made succeeds the answer is the full one.
C17_NoPartialResult ==
    ServedUnderFaults =>
        IF ReadsNeeded \cap req.down # {}
        THEN /\ resp.status = 500
             /\ resp.collection \in ReadsNeeded \cap req.down
             /\ DOMAIN resp \cap {"roles", "permissions", "policies_applied"} = {}
        ELSE /\ resp.status = 200
             /\ Range(resp.roles) = EntitledRoles

\* The user, its group and a matching policy are read, the caller is entitled
\* to a role, and the role lookup fails: the answer is the fault alone.
C17_Witness ==
    /\ ServedUnderFaults
    /\ req.down = {"roles"}
    /\ CallerGroups(users, req) # {}
    /\ StoredGroupRoles(users, groups, req) # {}
    /\ Matching(users, policies, req) # {}
    /\ resp.status = 500
    /\ resp.collection = "roles"

(***************************************************************************)
(* Specification SpecAdmin: the admin operations on the five collections   *)
(***************************************************************************)
\* The ids a path parameter may carry: a stored id, a well-formed id that is
\* not stored, and a string that is no ObjectId.
AdminIds(col) == Ids(col) \cup {MalformedId}

AdminHints == {NoHints, [preferred_username |-> "u1", email |-> None, name |-> "u1"]}

AdminMemberships == {<<>>, <<{}>>, <<{"g2"}>>}

AdminGroupPatches ==
    {[name |-> <<>>, role_names |-> <<{"r2"}>>], [name |-> <<"g2">>, role_names |-> <<>>]}

AdminPolicyPatches ==
    {[NoPolicyPatch EXCEPT !.name = <<"p2">>],
     [NoPolicyPatch EXCEPT !.effect = <<"deny">>, !.priority = <<1>>],
     NoPolicyPatch}

AdminPermissionPatches ==
    PermissionPatches \cup {[NoPermissionPatch EXCEPT !.key = <<KeyDotRead>>, !.action = << <<"use">> >>]}

AdminSeedGroups ==
    {{GroupDoc("seed2", "g1", {"r1"})},
     {GroupDoc("seed2", "g1", {"r1"}), GroupDoc("seed3", "g2", {})}}

AdminSeedPolicies ==
    {{PolicyDoc("seed6", BasePayload("p1", "allow"))},
     {PolicyDoc("seed6", BasePayload("p1", "allow")),
      PolicyDoc("seed7", BasePayload("p2", "deny"))}}

InitAdmin ==
    /\ OutsideIdle
    /\ users = {UserDoc("seed1", "u1", {"g1"}, {"r1"})}
    /\ groups \in AdminSeedGroups
    /\ roles = {RoleDoc("seed4", "r1", {KeyWorkspaceRead})}
    /\ permissions = {PermissionDoc("seed5", KeyWorkspaceRead, "raina")}
    /\ policies \in AdminSeedPolicies
    /\ clock = 0
    /\ req = AdminReq
    /\ resp = Admin(200)

NextAdmin ==
    \/ \E s \in Subjects, h \in AdminHints : UpsertIdentity("kc", s, h)
    \/ \E s \in Subjects, g \in AdminMemberships, rn \in AdminMemberships :
           SetMembership("kc", s, g, rn)
    \/ \E s \in Subjects : DeleteUser("kc", s)
    \/ \E n \in GroupNames \cup {""}, rn \in {{}, {"r2"}} : CreateGroup(n, rn)
    \/ \E id \in AdminIds(groups), patch \in AdminGroupPatches : UpdateGroup(id, patch)
    \/ \E id \in AdminIds(groups) : DeleteGroup(id)
    \/ \E n \in RoleNames, ks \in {{}, {KeyRun}} : CreateRole(n, ks)
    \/ \E id \in Ids(roles) : UpdateRole(id, [name |-> <<>>, permission_keys |-> <<{KeyRun}>>])
    \/ \E id \in Ids(roles) : DeleteRole(id)
    \/ \E k \in {<<>>, KeyWorkspaceRead, KeyRun}, app \in {None, " "} : CreatePermission(k, app)
    \/ \E id \in AdminIds(permissions), patch \in AdminPermissionPatches :
           UpdatePermission(id, patch)
    \/ \E id \in AdminIds(permissions) : DeletePermission(id)
    \/ \E payload \in {BasePayload(n, "allow") : n \in {"", "p1", "p2"}} : CreatePolicy(payload)
    \/ \E id \in AdminIds(policies), patch \in AdminPolicyPatches : UpdatePolicy(id, patch)
    \/ \E id \in AdminIds(policies) : DeletePolicy(id)

SpecAdmin == InitAdmin /\ [][NextAdmin]_vars

(***************************************************************************)
(* C18 - C20                                                               *)
(***************************************************************************)
NoTwoShare(col, field) == \A d \in col, e \in col : d[field] = e[field] => d = e

UniqueKeys ==
    /\ NoTwoShare(permissions, "key")
    /\ NoTwoShare(roles, "name")
    /\ NoTwoShare(groups, "name")
    /\ NoTwoShare(policies, "name")

\* C18. Unique keys: no two documents of a collection share a unique key, and
\* an admin create or update that would make two share one is answered with
\* Conflict (409): it never ends in a duplicate-key error nobody handles.
C18_UniqueKeys ==
    /\ UniqueKeys
    /\ ("raised" \in DOMAIN resp /\ resp.raised = "DuplicateKeyError") => resp.status = 409

\* The document of col with the id, as a set of at most one.
Stored(col, id) == {d \in col : d._id = id}

\* The fields a patch sets: those it gives a non-null value.
PatchFields(patch) == {f \in DOMAIN patch : patch[f] # <<>>}

\* An update step from col to next that found the id and was not refused as a
\* duplicate changed the one document, in the patch fields, the fields of
\* derived and updated_at only; app is stored normalised, every other patch
\* field with the value given.
UpdatedAsPatched(col, next, id, patch, derived) ==
    \E d \in Stored(col, id) : \E n \in Stored(next, id) :
        /\ next \ {n} = col \ {d}
        /\ n.updated_at = clock'
        /\ \A f \in DOMAIN d \ {"updated_at"} :
               IF f \in PatchFields(patch) THEN f = "app" \/ n[f] = patch[f][1]
               ELSE f \in derived \/ n[f] = d[f]

Refused == resp'.status \notin {200, 404} /\ UNCHANGED store

\* What the claim asks of an update of id in col.
UpdateFrame(col, next, others, id, patch, derived) ==
    IF Stored(col, id) = {}
    THEN resp'.status = 404 /\ UNCHANGED store
    ELSE \/ \E e \in col \ Stored(col, id) :
                \E f \in {"name", "key"} \cap PatchFields(patch) : e[f] = patch[f][1] /\ Refused
         \/ /\ resp'.status = 200
            /\ UpdatedAsPatched(col, next, id, patch, derived)
            /\ UNCHANGED others

\* What the claim asks of a delete of id in col.
DeleteFrame(col, next, others, id) ==
    IF Stored(col, id) = {}
    THEN resp'.status = 404 /\ UNCHANGED store
    ELSE resp'.status = 200 /\ next = col \ Stored(col, id) /\ UNCHANGED others

\* The fields PermissionDAL.update derives from a patched key.
DerivedFromKey(patch) ==
    IF patch.key # <<>> THEN {"resource_type", "action"} \ PatchFields(patch) ELSE {}

\* C19. update(id, patch) changes exactly the patch's non-null fields and
\* updated_at of the one document (for a Permission whose key is patched also
\* resource_type and action, re-derived from the new key unless the patch gives
\* them) and nothing else; update or delete of an id that is not stored answers
\* NotFound (404) and changes nothing.
C19_UpdateFrame ==
    [][/\ \A id \in AdminIds(groups), patch \in AdminGroupPatches :
              UpdateGroup(id, patch) =>
                  UpdateFrame(groups, groups', <<users, roles, permissions, policies>>,
                              id, patch, {})
       /\ \A id \in AdminIds(policies), patch \in AdminPolicyPatches :
              UpdatePolicy(id, patch) =>
                  UpdateFrame(policies, policies', <<users, groups, roles, permissions>>,
                              id, patch, {})
       /\ \A id \in AdminIds(permissions), patch \in AdminPermissionPatches :
              UpdatePermission(id, patch) =>
                  /\ UpdateFrame(permissions, permissions', <<users, groups, roles, policies>>,
                                 id, patch, DerivedFromKey(patch))
                  /\ (resp'.status = 200 /\ patch.key # <<>>) =>
                         \A n \in Stored(permissions', id) :
                             /\ "resource_type" \in DerivedFromKey(patch) =>
                                    n.resource_type = derive_resource_action(n.key)[1]
                             /\ "action" \in DerivedFromKey(patch) =>
                                    n.action = derive_resource_action(n.key)[2]
       /\ \A id \in AdminIds(groups) :
              DeleteGroup(id) =>
                  DeleteFrame(groups, groups', <<users, roles, permissions, policies>>, id)
       /\ \A id \in AdminIds(policies) :
              DeletePolicy(id) =>
                  DeleteFrame(policies, policies', <<users, groups, roles, permissions>>, id)
       /\ \A id \in AdminIds(permissions) :
              DeletePermission(id) =>
                  DeleteFrame(permissions, permissions', <<users, groups, roles, policies>>, id)
      ]_vars


\* The user documents of an identity.
UsersOf(col, issuer, subject) == {d \in col : d.issuer = issuer /\ d.subject = subject}

AtMostOneUser == \A a \in users, b \in users : (a.issuer = b.issuer /\ a.subject = b.subject) => a = b

HintsOf(d) == [preferred_username |-> d.preferred_username, email |-> d.email, name |-> d.name]

\* An upsert step of the identity with the hints, as the claim describes it.
UpsertedAsClaimed(issuer, subject, hints) ==
    /\ UNCHANGED <<groups, roles, permissions, policies>>
    /\ \E n \in UsersOf(users', issuer, subject) :
           /\ HintsOf(n) = hints
           /\ n.updated_at = clock'
           /\ IF UsersOf(users, issuer, subject) = {}
              THEN /\ users' = users \cup {n}
                   /\ n.group_names = {} /\ n.role_names = {}
              ELSE \E d \in UsersOf(users, issuer, subject) :
                       /\ users' = (users \ {d}) \cup {n}
                       /\ \A f \in DOMAIN d \ {"preferred_username", "email", "name", "updated_at"} :
                              n[f] = d[f]

\* The membership of a user that stays stored changes only in a set_membership
\* step for its identity, to the lists that step gives.
MembershipOnlySet ==
    \A d \in users : \A n \in UsersOf(users', d.issuer, d.subject) :
        (n.group_names # d.group_names \/ n.role_names # d.role_names) =>
            \E g \in AdminMemberships, rn \in AdminMemberships :
                /\ SetMembership(d.issuer, d.subject, g, rn)
                /\ n.group_names = (IF g = <<>> THEN d.group_names ELSE g[1])
                /\ n.role_names = (IF rn = <<>> THEN d.role_names ELSE rn[1])

DeleteSeedPolicies ==
    {{PolicyDoc("seed6", [BasePayload("p1", "allow") EXCEPT
                             !.subjects = SubjectsOf({Ref("kc", "u1")}, {"g1"}),
                             !.grant = Grant({"r1", "r2"})])},
     {PolicyDoc("seed6", BasePayload("p1", "allow")),
      PolicyDoc("seed7", [BasePayload("p2", "deny") EXCEPT !.grant = Grant({"r2"})])}}

DeleteSeedRoles ==
    {{RoleDoc("seed4", "r1", {KeyWorkspaceRead})},
     {RoleDoc("seed4", "r1", {KeyWorkspaceRead}), RoleDoc("seed8", "r2", {KeyRun})}}

InitDelete ==
    /\ OutsideIdle
    /\ users = {UserDoc("seed1", "u1", {"g1"}, {"r1"})}
    /\ groups \in AdminSeedGroups
    /\ roles \in DeleteSeedRoles
    /\ permissions = {PermissionDoc("seed5", KeyWorkspaceRead, "raina")}
    /\ policies \in DeleteSeedPolicies
    /\ clock = 0
    /\ req = AdminReq
    /\ resp = Admin(200)

NextDelete ==
    \/ \E s \in Subjects : DeleteUser("kc", s)
    \/ \E id \in Ids(groups) : DeleteGroup(id)
    \/ \E id \in Ids(roles) : DeleteRole(id)
    \/ \E id \in Ids(permissions) : DeletePermission(id)
    \/ \E id \in Ids(policies) : DeletePolicy(id)
    \/ \E r \in Requests : Resolve(r)

SpecDelete == InitDelete /\ [][NextDelete]_vars

(***************************************************************************)
(* C21: deletes                                                            *)
(***************************************************************************)
\* C21. Deleting a stored Permission, Role, Group, Policy or User answers 200
\* whatever refers to it, removes that one document and changes no document
\* of any other collection (so every reference to its key or name stays), and
\* a resolve after it is answered with 200.
C21_NoCascade ==
    [][/\ \A s \in Subjects :
              DeleteUser("kc", s) =>
                  /\ UNCHANGED <<groups, roles, permissions, policies>>
                  /\ IF UsersOf(users, "kc", s) = {}
                     THEN resp'.status = 404 /\ UNCHANGED users
                     ELSE resp'.status = 200 /\ users' = users \ UsersOf(users, "kc", s)
       /\ \A id \in Ids(groups) :
              DeleteGroup(id) =>
                  DeleteFrame(groups, groups', <<users, roles, permissions, policies>>, id)
       /\ \A id \in Ids(roles) :
              DeleteRole(id) =>
                  DeleteFrame(roles, roles', <<users, groups, permissions, policies>>, id)
       /\ \A id \in Ids(permissions) :
              DeletePermission(id) =>
                  DeleteFrame(permissions, permissions', <<users, groups, roles, policies>>, id)
       /\ \A id \in Ids(policies) :
              DeletePolicy(id) =>
                  DeleteFrame(policies, policies', <<users, groups, roles, permissions>>, id)
       /\ \A r \in Requests : Resolve(r) => resp'.status = 200
      ]_vars

\* The names and keys that some document refers to and no document bears.
DanglingRoleNames ==
    (UNION {u.role_names : u \in users} \cup UNION {g.role_names : g \in groups}
        \cup UNION {p.grant.role_names : p \in policies})
    \ {ro.name : ro \in roles}

DanglingGroupNames ==
    (UNION {u.group_names : u \in users} \cup UNION {p.subjects.group_names : p \in policies})
    \ {g.name : g \in groups}

DanglingKeys == UNION {ro.permission_keys : ro \in roles} \ {p.key : p \in permissions}

\* A referenced document was deleted and a resolve for its user was answered.
C21_Witness ==
    /\ clock = 1
    /\ resp.kind = "resolve" /\ resp.status = 200 /\ resp.subject = "u1"
    /\ \/ "r1" \in DanglingRoleNames
       \/ "g1" \in DanglingGroupNames
       \/ KeyWorkspaceRead \in DanglingKeys


(***************************************************************************)
(* C22: permission provenance                                              *)
(***************************************************************************)
\* The stored roles that a matching deny policy takes from the caller.
DeniedRoleDocs == {d \in roles : d.name \in DenyRoles(users, policies, req)}

\* C22. Every grant of a resolve answer has a key listed in permission_keys
\* of a stored Role that the answer names in roles; a role denied by a policy
\* is not named and gives no permission, so a key that only denied roles hold
\* is not among the permissions.
C22_Provenance ==
    Resolved =>
        /\ \A g \in GrantsOut :
               \E d \in roles : d.name \in RolesOut /\ g.key \in d.permission_keys
        /\ \A d \in DeniedRoleDocs :
               /\ d.name \notin RolesOut
               /\ \A key \in d.permission_keys :
                      (\A e \in roles : key \in e.permission_keys => e \in DeniedRoleDocs)
                          => \A g \in GrantsOut : g.key # key

\* A deny policy took r2 from a caller whose group grants it; the answer
\* keeps r1 and the key r1 shares with r2, and has no key of r2 alone.
C22_Witness ==
    /\ Resolved
    /\ "r2" \in StoredGroupRoles(users, groups, req)
    /\ \E d \in DeniedRoleDocs : d.name = "r2" /\ KeyDotRead \in d.permission_keys
    /\ "r1" \in RolesOut
    /\ \E g \in GrantsOut : g.key = KeyRun
    /\ \A g \in GrantsOut : g.key # KeyDotRead


(***************************************************************************)
(* Specification SpecConcurrent: a resolve is served read by read while    *)
(* admin requests are served between its reads                             *)
(***************************************************************************)
ConcurrentRequests == {ResolveReq("kc", s, "astra", None, <<>>) : s \in Subjects}

ConcurrentGroupPatches ==
    {[name |-> <<"g2">>, role_names |-> <<>>], [name |-> <<>>, role_names |-> <<{"r2"}>>]}

InitConcurrent ==
    /\ OutsideIdle
    /\ users = {UserDoc("seed1", "u1", {"g1", "g2"}, {})}
    /\ groups = {GroupDoc("seed2", "g1", {"r1"})}
    /\ roles = {RoleDoc("seed4", "r1", {KeyWorkspaceRead})}
    /\ permissions = {PermissionDoc("seed5", KeyWorkspaceRead, "raina")}
    /\ policies = {PolicyDoc("seed6", [BasePayload("p1", "allow") EXCEPT !.grant = Grant({"r2"})])}
    /\ clock = 0
    /\ req = AdminReq
    /\ resp = Admin(200)

NextConcurrent ==
    \/ \E r \in ConcurrentRequests : ResolveStart(r)
    \/ ReadUser
    \/ \E gname \in GroupNames : ReadGroup(gname)
    \/ ReadPolicies
    \/ \E rname \in RoleNames : ReadRole(rname)
    \/ ResolveReturn
    \/ \E g \in {<<{}>>, <<{"g1"}>>}, rn \in {<<>>, <<{"r1"}>>} : SetMembership("kc", "u1", g, rn)
    \/ \E id \in Ids(groups), patch \in ConcurrentGroupPatches : UpdateGroup(id, patch)
    \/ \E id \in Ids(roles) : DeleteRole(id)
    \/ \E id \in Ids(permissions) : DeletePermission(id)
    \/ \E id \in Ids(policies) : DeletePolicy(id)

SpecConcurrent == InitConcurrent /\ [][NextConcurrent]_vars

(***************************************************************************)
(* C23: a resolve among concurrent writes                                  *)
(***************************************************************************)
\* C23. A resolve whose reads are interleaved with admin writes returns what
\* a resolve of the store as it was at one instant between the call's start
\* and its return would return.  (Stated for the calls that looked at the
\* store after every single write, whose field answers then holds the answer
\* of every such instant.)
C23_SnapshotConsistent ==
    (call.pc = "returned" /\ ~call.missed) => call.result[1] \in call.answers


(***************************************************************************)
(* Specification SpecAbsent: policies name an identity that has no user    *)
(* document; resolve                                                       *)
(***************************************************************************)
AbsentRef == SubjectsOf({Ref("kc", "u2")}, {})

AbsentSeedPolicies ==
    {{PolicyDoc("seed6", [BasePayload("p1", "allow") EXCEPT
                             !.subjects = AbsentRef, !.grant = Grant({"r1", "r2"})])},
     {PolicyDoc("seed6", [BasePayload("p1", "allow") EXCEPT
                             !.subjects = AbsentRef, !.grant = Grant({"r1", "r2"})]),
      PolicyDoc("seed7", [BasePayload("p2", "deny") EXCEPT
                             !.subjects = AbsentRef, !.grant = Grant({"r2"})]),
      PolicyDoc("seed8", [BasePayload("p3", "allow") EXCEPT
                             !.subjects = SubjectsOf({}, {"g1", "g2"}),
                             !.grant = Grant({"r3"})])}}

AbsentPayloads ==
    {[BasePayload(n, e) EXCEPT !.subjects = x, !.grant = Grant({"r2", "r3"})] :
        n \in {"p4"}, e \in {"allow", "deny"},
        x \in {AbsentRef, SubjectsOf({}, {"g1"}), SubjectsOf({Ref("kx", "u2")}, {"g2"})}}

AbsentPatches ==
    {[NoPolicyPatch EXCEPT !.enabled = <<FALSE>>],
     [NoPolicyPatch EXCEPT !.target = <<Target("raina", None)>>],
     [NoPolicyPatch EXCEPT !.effect = <<"deny">>]}

InitAbsent ==
    /\ OutsideIdle
    /\ users = {UserDoc("seed1", "u1", {"g1"}, {"r1"})}
    /\ groups = {GroupDoc("seed2", "g1", {"r1"})}
    /\ roles = {RoleDoc("seed4", "r1", {KeyWorkspaceRead})}
    /\ permissions = {}
    /\ policies \in AbsentSeedPolicies
    /\ clock = 0
    /\ req = AdminReq
    /\ resp = Admin(200)

NextAbsent ==
    \/ \E s \in Subjects : DeleteUser("kc", s)
    \/ \E payload \in AbsentPayloads : CreatePolicy(payload)
    \/ \E id \in Ids(policies), patch \in AbsentPatches : UpdatePolicy(id, patch)
    \/ \E id \in Ids(policies) : DeletePolicy(id)
    \/ \E r \in Requests : Resolve(r)

SpecAbsent == InitAbsent /\ [][NextAbsent]_vars

(***************************************************************************)
(* C24: an identity without a user document                                *)
(***************************************************************************)
\* The roles granted by the enabled in-scope policies of the effect that list
\* the identity of r among their user_refs.
RefRoles(r, effect) ==
    GrantedBy({p \in policies : /\ InScope(p, r)
                                /\ Ref(r.issuer, r.subject) \in p.subjects.user_refs
                                /\ p.effect = effect})

\* C24. For an (issuer, subject) with no User document, resolve returns
\* exactly the roles of the enabled in-scope allow policies that list the pair
\* in subjects.user_refs, minus the roles of such deny policies; a policy that
\* does not list the pair is not applied, whatever its group_names.
C24_AbsentUser ==
    (Resolved /\ CallerDocs(users, req) = {}) =>
        /\ RolesOut = RefRoles(req, "allow") \ RefRoles(req, "deny")
        /\ \A p \in policies :
               Ref(req.issuer, req.subject) \notin p.subjects.user_refs
                   => Listed(p) \notin AppliedOut

\* An identity without a user document got a role from an allow policy that
\* lists it and lost another to a deny policy that lists it, next to an
\* in-scope policy for groups only.
C24_Witness ==
    /\ Resolved
    /\ CallerDocs(users, req) = {}
    /\ RolesOut = {"r1"}
    /\ "r2" \in RefRoles(req, "allow") \cap RefRoles(req, "deny")
    /\ \E p \in policies :
           InScope(p, req) /\ p.subjects.user_refs = {} /\ p.subjects.group_names # {}


(***************************************************************************)
(* C25: the returned roles and the stored Role documents                   *)
(***************************************************************************)
StoredRoleNames == {d.name : d \in roles}

\* The names granted to the caller of req and not denied.
GrantedNames ==
    (CallerRoles(users, req) \cup StoredGroupRoles(users, groups, req)
        \cup AllowRoles(users, policies, req))
    \ DenyRoles(users, policies, req)

\* C25 as claimed: every name in roles is the name of a stored Role.
C25_RolesAreStored == Resolved => RolesOut \subseteq StoredRoleNames

\* C25. Every name in roles is a name granted to the caller and not denied,
\* and every such name is in roles whether or not a Role of that name is
\* stored; the names without a stored Role add no permission: each grant's key
\* is listed by a stored Role named in roles.
C25_RolesAsGranted ==
    Resolved =>
        /\ \A R \in GrantedNames \cap StoredRoleNames : R \in RolesOut
        /\ \A R \in GrantedNames \ StoredRoleNames : R \in RolesOut
        /\ \A R \in RolesOut : R \in GrantedNames
        /\ \A g \in GrantsOut :
               \E d \in roles : d.name \in RolesOut /\ g.key \in d.permission_keys

\* The answer names a role whose document was deleted and a role that never
\* had one; neither gives a permission.
C25_Witness ==
    /\ Resolved
    /\ clock = 1
    /\ {"r1", "r2"} \subseteq RolesOut
    /\ StoredRoleNames = {}
    /\ resp.permissions = <<>>

(***************************************************************************)
(* C26: the handoff store                                                  *)
(***************************************************************************)
HandoffSids == {"sid1", "sid2"}

\* The codes a caller may present: every uuid that can be made, and one that
\* was never issued.
HandoffCodes == {Uuid(n) : n \in 1..MaxMinted} \cup {"unknown"}

InitHandoff ==
    /\ OutsideIdle
    /\ users = {}
    /\ groups = {}
    /\ roles = {}
    /\ permissions = {}
    /\ policies = {}
    /\ clock = 0
    /\ req = PassportReq("startup", None)
    /\ resp = Answer(200, None, None)

NextHandoff ==
    \/ Pass
    \/ \E sid \in HandoffSids, ttl \in Ttls : IssueCode(sid, ttl)
    \/ \E code \in HandoffCodes : PopSid(code)
    \/ \E code \in HandoffCodes : HandoffExchange(code)

SpecHandoff == InitHandoff /\ [][NextHandoff]_vars

\* The ttl_seconds a stored code was issued with.
TtlOf(c) == c.expires_at - c.created_at

\* The stored records of a code.
CodeRecords(code) == {c \in codes : c.code = code}

\* C26 as stated: pop_sid returns the sid only of a stored code, only when it
\* is called no later than ttl seconds after the issue, and the code is gone
\* after any pop_sid.
C26_PopWithinTtl ==
    [][\A code \in HandoffCodes :
           PopSid(code) =>
               /\ CodeRecords(code)' = {}
               /\ resp'.sid # None =>
                      \E c \in CodeRecords(code) :
                          /\ resp'.sid = c.sid
                          /\ time - c.issued_at <= TtlOf(c) * TicksPerSecond]_vars

\* C26. A handoff code is single-use and short-lived: issue_code returns a
\* code never returned before; pop_sid(code) returns the sid only of a stored
\* code and only when it is called less than ttl + 1 seconds after the issue
\* (both times are read in whole seconds); every pop_sid removes the code, so
\* a repeated pop_sid, a pop_sid ttl + 1 seconds or more after the issue and a
\* pop_sid of an unknown code return None; /auth/handoff/exchange answers
\* with a session only a code it removes.
C26_SingleUseShortLived ==
    [][/\ \A code \in HandoffCodes :
              PopSid(code) =>
                  /\ CodeRecords(code)' = {}
                  /\ resp'.sid # None =>
                         \E c \in CodeRecords(code) :
                             /\ resp'.sid = c.sid
                             /\ time - c.issued_at < (TtlOf(c) + 1) * TicksPerSecond
                  /\ (\A c \in CodeRecords(code) :
                          time - c.issued_at >= (TtlOf(c) + 1) * TicksPerSecond) =>
                         resp'.sid = None
       /\ \A sid \in HandoffSids, ttl \in Ttls :
              IssueCode(sid, ttl) =>
                  /\ resp'.code \notin Minted
                  /\ CodeRecords(resp'.code) = {}
                  /\ \E c \in codes' : c.code = resp'.code /\ c.sid = sid /\ TtlOf(c) = ttl
                  /\ \A c \in codes : c \in codes'
       /\ \A code \in HandoffCodes :
              (HandoffExchange(code) /\ resp'.status = 200) =>
                  CodeRecords(code) # {} /\ CodeRecords(code)' = {}
       /\ \A c \in codes : c.code \in Minted /\ Cardinality(CodeRecords(c.code)) = 1]_vars

\* A code issued with ttl 0 was popped a tick after it was issued, and gave
\* its sid.
C26_Witness ==
    /\ req.op = "pop_sid"
    /\ resp.sid \in HandoffSids
    /\ time > 0
    /\ CodeRecords(req.arg) = {}
    /\ req.arg \in Minted

(***************************************************************************)
(* The /auth routes of the passport service, with Sentinel behind them     *)
(***************************************************************************)
\* The id_token claims of the identity provider: a known user, a user
\* Sentinel has never seen, and a token without sub.
PassportClaims ==
    {[iss |-> "kc", sub |-> "u1"], [iss |-> "kc", sub |-> "u2"], [iss |-> "kc", sub |-> None]}

\* What a caller may present as state, session cookie, sid or code: a uuid
\* the service has made, whatever it made it for, or nothing.
Presented == Minted \cup {None}

InitPassport ==
    /\ OutsideIdle
    /\ users = {UserDoc("seed1", "u1", {}, {"r1"})}
    /\ groups = {}
    /\ roles = {RoleDoc("seed3", "r1", {KeyWorkspaceRead})}
    /\ permissions = {PermissionDoc("seed5", KeyWorkspaceRead, "raina")}
    /\ policies = {}
    /\ clock = 0
    /\ req = PassportReq("startup", None)
    /\ resp = Answer(200, None, None)

NextPassport ==
    \/ Pass
    \/ \E idp \in {"ok", "no_metadata"} : Login(idp)
    \/ \E state \in Presented, idp \in {"ok", "no_token"},
          claims \in PassportClaims, up \in {"ok", "failed"}, res \in {"ok", "failed"} :
           Callback(state, idp, claims, up, res)
    \/ \E cookie \in Presented : Session(cookie)
    \/ \E cookie \in Presented, uri_ok \in BOOLEAN : VscodeFinish(cookie, uri_ok)
    \/ \E code \in Presented : HandoffExchange(code)
    \/ \E sid \in Presented : HandoffSession(sid)
    \/ \E sid \in Presented : HandoffLogout(sid)
    \/ \E cookie \in Presented, browser \in BOOLEAN : Logout(cookie, browser)

SpecPassport == InitPassport /\ [][NextPassport]_vars

(***************************************************************************)
(* The session routes, with the identity provider and Sentinel answering   *)
(***************************************************************************)
NextSession ==
    \/ Pass
    \/ Login("ok")
    \/ \E state \in Presented, claims \in PassportClaims :
           Callback(state, "ok", claims, "ok", "ok")
    \/ \E cookie \in Presented : Session(cookie)
    \/ \E cookie \in Presented : VscodeFinish(cookie, TRUE)
    \/ \E code \in Presented : HandoffExchange(code)
    \/ \E sid \in Presented : HandoffSession(sid)
    \/ \E sid \in Presented : HandoffLogout(sid)
    \/ \E cookie \in Presented, browser \in BOOLEAN : Logout(cookie, browser)

SpecSession == InitPassport /\ [][NextSession]_vars

(***************************************************************************)
(* C27: sessions                                                           *)
(***************************************************************************)
AllUuids == {Uuid(n) : n \in 1..MaxMinted}

\* The stored records of a sid that have not expired.
LiveRecords(sid) == {s \in sessions : s.sid = sid /\ ~(s.expires_at < time)}

ExpiredRecords(sid) == {s \in sessions : s.sid = sid /\ s.expires_at < time}

\* The last request was a logout of sid.
LoggedOut(sid) ==
    /\ req.op \in {"logout", "logout_browser", "handoff_logout"}
    /\ req.arg = sid

\* The last request was answered with the session of sid.
Served(sid) ==
    /\ resp.kind = "passport"
    /\ resp.status = 200
    /\ \/ req.op \in {"session", "handoff_session"} /\ req.arg = sid
       \/ req.op = "handoff_exchange" /\ resp.body.sid = sid

\* C27. A session is readable only while live: /auth/session and
\* /auth/handoff/session answer with a session exactly when a record of the
\* sid is stored and the time is not past its expires_at, an exchange answers
\* with a session only then, and a read that finds an expired record removes
\* it; records are stored only by the callback, under a new sid, expiring
\* SESSION_TTL_SECONDS later; a logout leaves no record of the sid; and once
\* a sid is logged out, no later /auth/session, /auth/handoff/session or
\* handoff exchange is answered with its session.
C27_ReadableOnlyWhileLive ==
    /\ [][/\ \A c \in AllUuids :
                 /\ Session(c) =>
                        /\ resp'.status = 200 <=> LiveRecords(c) # {}
                        /\ sessions' = sessions \ ExpiredRecords(c)
                 /\ HandoffSession(c) =>
                        /\ resp'.status = 200 <=> LiveRecords(c) # {}
                        /\ sessions' = sessions \ ExpiredRecords(c)
                 /\ (HandoffExchange(c) /\ resp'.status = 200) =>
                        \E h \in codes : h.code = c /\ LiveRecords(h.sid) # {}
                 /\ (HandoffLogout(c) \/ Logout(c, TRUE) \/ Logout(c, FALSE)) =>
                        /\ {s \in sessions' : s.sid = c} = {}
                        /\ sessions' \subseteq sessions
          /\ \A s \in sessions' \ sessions :
                 /\ req'.op = "callback"
                 /\ s.sid \notin Minted
                 /\ s.expires_at = time + SESSION_TTL_SECONDS * TicksPerSecond
                 /\ resp'.cookie = s.sid]_vars
    /\ \A sid \in AllUuids : [](LoggedOut(sid) => [](~Served(sid)))

\* The session of the second uuid was made at time 0, so that it cannot have
\* expired; it was logged out, and /auth/handoff/session now finds no session.
C27_Witness ==
    /\ time = 0
    /\ clock = 1
    /\ minted = 2
    /\ flows = {}
    /\ sessions = {}
    /\ req = PassportReq("handoff_session", Uuid(2))
    /\ resp = Unauthenticated

(***************************************************************************)
(* C28: the callback and Sentinel                                          *)
(***************************************************************************)
NextLogin ==
    \/ \E idp \in {"ok", "no_metadata"} : Login(idp)
    \/ \E state \in Presented, idp \in {"ok", "no_metadata", "no_token"},
          claims \in PassportClaims, up \in {"ok", "failed"}, res \in {"ok", "failed"} :
           Callback(state, idp, claims, up, res)
    \/ \E cookie \in Presented : Session(cookie)

SpecLogin == InitPassport /\ [][NextLogin]_vars

\* The session stored under a sid.
SessionOf(ss, sid) == (CHOOSE s \in ss : s.sid = sid).data

\* C28. A callback with a pending state, a token and an id_token that has iss
\* and sub is answered with a redirect that sets a new session cookie, and the
\* session is stored, whether or not the upsert and the resolve reach
\* Sentinel; after a failed upsert Sentinel's users are as before; after a
\* failed resolve the session's roles, permissions and policies_applied are
\* empty, and after an answered one they are Sentinel's answer.
C28_LoginWithoutSentinel ==
    [][\A state \in AllUuids, claims \in PassportClaims,
          up \in {"ok", "failed"}, res \in {"ok", "failed"} :
           (/\ Callback(state, "ok", claims, up, res)
            /\ state \in flows
            /\ Truthy(claims.iss) /\ Truthy(claims.sub)) =>
               /\ resp'.status = 302
               /\ resp'.raised = None
               /\ resp'.cookie \notin Minted
               /\ \E s \in sessions' : s.sid = resp'.cookie
               /\ SessionOf(sessions', resp'.cookie).id_claims = claims
               /\ up = "failed" => users' = users
               /\ LET authz == SessionOf(sessions', resp'.cookie).authorization
                  IN  IF res = "failed"
                      THEN /\ authz.roles = <<>>
                           /\ authz.permissions = <<>>
                           /\ authz.policies_applied = <<>>
                      ELSE LET a == resolve(users', groups, roles, permissions, policies,
                                            ResolveReq(claims.iss, claims.sub, None, None, <<>>))
                           IN  /\ authz.roles = a.roles
                               /\ authz.permissions = a.permissions
                               /\ authz.policies_applied = a.policies_applied]_vars

\* The user Sentinel would give role r1 logged in while neither call reached
\* Sentinel: the session is there, and /auth/session shows it without a role.
C28_Witness ==
    /\ req.op = "session"
    /\ resp.status = 200
    /\ resp.body.user.sub = "u1"
    /\ resp.body.roles = <<>>
    /\ resp.body.permissions = <<>>
    /\ clock = 0
    /\ \E s \in sessions : s.sid = req.arg /\ s.data.authorization.policies_applied = <<>>

\* The same user logged in with Sentinel answering, and has the role.
C28_WitnessAnswered ==
    /\ req.op = "session"
    /\ resp.status = 200
    /\ resp.body.roles = <<"r1">>

(***************************************************************************)
(* C29: the stores of app.state                                            *)
(***************************************************************************)
\* C29. No /auth route ends in an exception for a store that app.state does
\* not have: /auth/vscode/finish with a valid session issues a handoff code,
\* and /auth/handoff/exchange reaches the handoff store.
C29_StoresInitialised ==
    resp.kind = "passport" => resp.raised # "AttributeError"

\* After startup app.state has every store the /auth routes read.
C29_StartupSetsStores ==
    {"session_store", "flow_store", "handoff_store"} \subseteq app_state

\* /auth/vscode/finish was called with the cookie of a live session.
C29_FinishWithSession ==
    /\ req.op = "vscode_finish"
    /\ \E s \in sessions : s.sid = req.arg /\ ~(s.expires_at < time)
    /\ resp.status = 500

(***************************************************************************)
(* C30: the websocket fan-out                                              *)
(***************************************************************************)
InitNotification ==
    /\ OutsideIdle
    /\ users = {}
    /\ groups = {}
    /\ roles = {}
    /\ permissions = {}
    /\ policies = {}
    /\ clock = 0
    /\ req = [op |-> "startup"]
    /\ resp = [kind |-> "none"]

NextNotification ==
    \/ \E w \in Sockets : Accept(w)
    \/ \E w \in Sockets : ConnectLock(w)
    \/ \E w \in Sockets : ConnectAdd(w)
    \/ \E w \in Sockets : Disconnected(w)
    \/ \E w \in Sockets : DisconnectLock(w)
    \/ \E w \in Sockets : DisconnectDiscard(w)
    \/ \E b \in Broadcasts : BroadcastLock(b)
    \/ \E b \in Broadcasts : BroadcastSnapshot(b)
    \/ \E b \in Broadcasts, w \in Sockets, ok \in BOOLEAN : Send(b, w, ok)
    \/ \E b \in Broadcasts : PruneLock(b)
    \/ \E b \in Broadcasts : Prune(b)

SpecNotification == InitNotification /\ [][NextNotification]_vars

\* The lock is held only inside an async with block, and by no broadcast
\* that is sending.
LockOnlyAroundTheSet ==
    /\ \A b \in Broadcasts : lock = b <=> bcast[b].pc \in {"snapshot", "pruning"}
    /\ \A w \in Sockets : lock = w <=> conns[w] \in {"adding", "discarding"}
    /\ \A b \in Broadcasts : bcast[b].pc = "sending" => lock # b

\* A returned broadcast tried every client of its snapshot, and the failed
\* ones are not in the set.
SentToSnapshot(b) ==
    /\ bcast[b].pending = {}
    /\ bcast[b].sent \cup bcast[b].stale = bcast[b].snapshot
    /\ bcast[b].sent \cap bcast[b].stale = {}
    /\ bcast[b].stale \cap bcast[b].at_return = {}

\* C30 as stated: of a returned broadcast, every client whose send succeeded
\* and every client that connected while it was sending is in the set unless
\* it disconnected.
C30_FanOut ==
    /\ LockOnlyAroundTheSet
    /\ \A b \in Broadcasts :
           bcast[b].pc = "returned" =>
               /\ SentToSnapshot(b)
               /\ bcast[b].sent \subseteq bcast[b].at_return \cup bcast[b].left
               /\ bcast[b].joined \subseteq bcast[b].at_return \cup bcast[b].left

\* C30. A broadcast sends to every client of its snapshot; when it has
\* returned, every client whose send failed is out of the set, and every
\* client whose send succeeded, and every client that connected while it was
\* sending, is in the set unless it disconnected or another broadcast, running
\* at the same time, failed to send to it and removed it; the lock is held
\* only while the set is read or changed, never across a send.
C30_FanOutAmongBroadcasts ==
    /\ LockOnlyAroundTheSet
    /\ \A b \in Broadcasts :
           bcast[b].pc = "returned" =>
               /\ SentToSnapshot(b)
               /\ bcast[b].sent \subseteq
                      bcast[b].at_return \cup bcast[b].left \cup bcast[b].pruned
               /\ bcast[b].joined \subseteq
                      bcast[b].at_return \cup bcast[b].left \cup bcast[b].pruned

\* A broadcast has returned after a send that succeeded and one that failed,
\* while a third client connected: the first and the third are in the set,
\* the second is not.
C30_Witness ==
    \E b \in Broadcasts :
        /\ bcast[b].pc = "returned"
        /\ bcast[b].sent # {}
        /\ bcast[b].stale # {}
        /\ bcast[b].joined # {}
        /\ bcast[b].sent \cup bcast[b].joined \subseteq bcast[b].at_return
        /\ bcast[b].stale \cap bcast[b].at_return = {}

====
